---------------------------- MODULE Spec2Model ----------------------------
(***************************************************************************)
(* MusicLib GUI: the flat-file record store (LibraryModel), its watcher    *)
(* and debounce timer, the main window's own watcher on the same file, and *)
(* the ScriptRunner process launcher.                                      *)
(*                                                                         *)
(* A text (QString, QByteArray) is a sequence of one-character strings.    *)
(* A file's content is one text; its lines are cut at "\n" as              *)
(* QTextStream::readLine cuts them.                                        *)
(***************************************************************************)
EXTENDS Integers, Sequences, FiniteSets, TLC

(***************************************************************************)
(* Bounds of the model.                                                    *)
(***************************************************************************)
\* longest generated file, in lines
MaxLines == 3
\* most records written by the flat-file writer of the round trip
MaxRecords == 2

(***************************************************************************)
(* Program constants.                                                      *)
(***************************************************************************)
\* librarymodel.cpp:9   static const char DSV_DELIMITER = '^';
DSV_DELIMITER == "^"
\* librarymodel.h:41    TrackColumn::COUNT
COUNT == 13

(***************************************************************************)
(* Text primitives of Qt that parseFile uses.                              *)
(***************************************************************************)
\* QChar::isSpace for the characters the model's texts are made of
isSpace(c) == c \in {" ", "\t", "\n"}

RECURSIVE dropLeadingSpace(_)
\* the front half of QString::trimmed
dropLeadingSpace(s) ==
    IF s = << >> THEN << >>
    ELSE IF isSpace(Head(s)) THEN dropLeadingSpace(Tail(s))
    ELSE s

RECURSIVE dropTrailingSpace(_)
\* the back half of QString::trimmed
dropTrailingSpace(s) ==
    IF s = << >> THEN << >>
    ELSE IF isSpace(s[Len(s)]) THEN dropTrailingSpace(SubSeq(s, 1, Len(s) - 1))
    ELSE s

\* QString::trimmed(): white space removed from both ends, the middle kept
trimmed(s) == dropTrailingSpace(dropLeadingSpace(s))

RECURSIVE splitFrom(_, _, _)
\* the scan of QString::split(sep), Qt::KeepEmptyParts: cur is the part being
\* read; every separator closes a part, the end of the text closes the last
splitFrom(s, sep, cur) ==
    IF s = << >> THEN << cur >>
    ELSE IF Head(s) = sep THEN << cur >> \o splitFrom(Tail(s), sep, << >>)
    ELSE splitFrom(Tail(s), sep, Append(cur, Head(s)))

\* QString::split(sep)
split(s, sep) == splitFrom(s, sep, << >>)

RECURSIVE readLines(_)
\* QTextStream::readLine() until atEnd(): the text cut at each "\n"; a text
\* that ends in "\n" has no further (empty) line after it
readLines(content) ==
    IF content = << >> THEN << >>
    ELSE LET parts == split(content, "\n")
             n == Len(parts)
         IN IF parts[n] = << >> THEN SubSeq(parts, 1, n - 1) ELSE parts

(***************************************************************************)
(* TrackRecord and LibraryModel::parseFile's loop.                         *)
(***************************************************************************)
\* QString(): the empty text
EmptyText == << >>

\* TrackRecord{}: every field a default-constructed QString
EmptyTrackRecord ==
    [id |-> EmptyText, artist |-> EmptyText, idAlbum |-> EmptyText,
     album |-> EmptyText, albumArtist |-> EmptyText, songTitle |-> EmptyText,
     songPath |-> EmptyText, genre |-> EmptyText, songLength |-> EmptyText,
     rating |-> EmptyText, custom2 |-> EmptyText, groupDesc |-> EmptyText,
     lastTimePlayed |-> EmptyText]

\* enum class TrackColumn and the switch of LibraryModel::data: the field of
\* a record that column col (0-based) stands for
column(track, col) ==
    CASE col = 0 -> track.id
      [] col = 1 -> track.artist
      [] col = 2 -> track.idAlbum
      [] col = 3 -> track.album
      [] col = 4 -> track.albumArtist
      [] col = 5 -> track.songTitle
      [] col = 6 -> track.songPath
      [] col = 7 -> track.genre
      [] col = 8 -> track.songLength
      [] col = 9 -> track.rating
      [] col = 10 -> track.custom2
      [] col = 11 -> track.groupDesc
      [] col = 12 -> track.lastTimePlayed

RECURSIVE padFields(_)
\* while (fields.size() < COUNT) fields.append(QString());
padFields(fields) ==
    IF Len(fields) < COUNT THEN padFields(Append(fields, EmptyText)) ELSE fields

\* TrackRecord track; track.id = fields[ID]; ... (fields is 0-based in the
\* source, 1-based here: fields[TrackColumn::X] is fields[X + 1])
makeTrack(fields) ==
    [id |-> fields[1], artist |-> fields[2], idAlbum |-> fields[3],
     album |-> fields[4], albumArtist |-> fields[5], songTitle |-> fields[6],
     songPath |-> fields[7], genre |-> fields[8], songLength |-> fields[9],
     rating |-> fields[10], custom2 |-> fields[11], groupDesc |-> fields[12],
     lastTimePlayed |-> fields[13]]

\* rowToTrack that also trims every field
rowToTrack_trimsFields(line) ==
    LET fields == split(line, DSV_DELIMITER)
    IN makeTrack(padFields([i \in 1..Len(fields) |-> trimmed(fields[i])]))

\* one data row: split on the delimiter, pad, build the record
rowToTrack(line) == makeTrack(padFields(split(line, DSV_DELIMITER)))

RECURSIVE parseLoop_headerIsFirstLine(_, _, _)
\* the loop with the header test before the blank test: the first line of
\* the file is the header even when it is blank
parseLoop_headerIsFirstLine(lines, firstLine, newTracks) ==
    IF lines = << >> THEN newTracks
    ELSE LET line == trimmed(Head(lines))
         IN IF firstLine THEN parseLoop_headerIsFirstLine(Tail(lines), FALSE, newTracks)
            ELSE IF line = << >>
            THEN parseLoop_headerIsFirstLine(Tail(lines), firstLine, newTracks)
            ELSE parseLoop_headerIsFirstLine(Tail(lines), firstLine,
                                             Append(newTracks, rowToTrack(line)))

RECURSIVE parseLoop_skipsShortRows(_, _, _)
\* the loop with short rows rejected instead of padded
parseLoop_skipsShortRows(lines, firstLine, newTracks) ==
    IF lines = << >> THEN newTracks
    ELSE LET line == trimmed(Head(lines))
         IN IF line = << >> THEN parseLoop_skipsShortRows(Tail(lines), firstLine, newTracks)
            ELSE IF firstLine THEN parseLoop_skipsShortRows(Tail(lines), FALSE, newTracks)
            ELSE IF Len(split(line, DSV_DELIMITER)) < COUNT
            THEN parseLoop_skipsShortRows(Tail(lines), firstLine, newTracks)
            ELSE parseLoop_skipsShortRows(Tail(lines), firstLine,
                                          Append(newTracks, rowToTrack(line)))

RECURSIVE parseLoop(_, _, _)
\* while (!in.atEnd()) { ... }: lines still to read, the firstLine flag,
\* the newTracks built so far
parseLoop(lines, firstLine, newTracks) ==
    IF lines = << >> THEN newTracks
    ELSE LET line == trimmed(Head(lines))
         IN IF line = << >> THEN parseLoop(Tail(lines), firstLine, newTracks)
            ELSE IF firstLine THEN parseLoop(Tail(lines), FALSE, newTracks)
            ELSE parseLoop(Tail(lines), firstLine,
                           Append(newTracks, rowToTrack(line)))

\* the body of parseFile after a successful open: the value given to m_tracks
parseContent(content) == parseLoop(readLines(content), TRUE, << >>)


(***************************************************************************)
(* State.                                                                  *)
(***************************************************************************)
VARIABLES
    dbFile,          \* the database file on disk: [exists, content]
    m_tracks,        \* LibraryModel::m_tracks of MainWindow::m_libraryModel
    m_dsvPath,       \* LibraryModel::m_dsvPath
    m_watcher,       \* LibraryModel::m_watcher: [files, live, events]
    m_debounceTimer, \* LibraryModel::m_debounceTimer: [active, left]
    m_fileWatcher,   \* MainWindow::m_fileWatcher: [files, live, events]
    shots,           \* MainWindow's pending QTimer::singleShot lambdas: ms left of each
    panelTracks,     \* m_tracks of the library panel's own LibraryModel (LibraryView::m_model)
    emitted,         \* the signals the last handler emitted, in order
    lastCall,        \* the last handler run: [op, opened, ret, pre]
    handled,         \* runs of LibraryModel::onFileChanged
    sinceNotif,      \* ms since LibraryModel::onFileChanged last ran (capped)
    bursts,          \* notifications that came more than one window after the one before
    reloads,         \* runs of LibraryModel::reloadDebounced
    reloadGaps,      \* the values of sinceNotif at which reloadDebounced ran
    boundary,        \* some notification came exactly one window after the one before
    notified,        \* file changes reported to a watcher so far
    parses,          \* runs of parseFile on m_libraryModel since construction
    clientLoads,     \* of these, the loads its clients asked for on their own
    written,         \* the records the flat-file writer wrote, <<>> when it did not write
    m_scriptProcess, \* ScriptRunner::m_scriptProcess: 0 (nullptr) or an index of procs
    m_currentOpId,   \* ScriptRunner::m_currentOpId
    procs,           \* every QProcess runScript created: [opId, call, state, deleted,
                     \* term, killed, killedAt, killedFor]
    rejected,        \* the runScript calls turned away: their call numbers
    calls,           \* calls of runScript and rate so far
    m_pendingFilePath, \* ScriptRunner::m_pendingFilePath
    m_pendingStars,  \* ScriptRunner::m_pendingStars
    rateProcs,       \* the rate processes in flight: [call, filePath, stars]
    killShots,       \* cancelScript's pending QTimer::singleShot lambdas: [left, proc]
    buttonsEnabled,  \* MaintenancePanel: the launch buttons are enabled, Cancel is hidden
    newTracksShot,   \* launchNewTracks' QTimer::singleShot lambda is pending
    m_logOutput,     \* what MaintenancePanel logged in the last handler (m_logOutput)
    scriptCalls,     \* every runScript call: [call, opId, finished, outputs, late]
    argv,            \* musiclib-cli: the arguments after the command name
    existing,        \* musiclib-cli: the paths QFileInfo::exists finds
    confFile,        \* musiclib.conf on disk: [exists, content]
    m_filePath,      \* ConfWriter::m_filePath
    m_rawLines,      \* ConfWriter::m_rawLines
    m_values,        \* ConfWriter::m_values: key -> value
    confLoaded,      \* the lines of musiclib.conf when loadFromFile last read it
    confCalls,       \* calls on the ConfWriter so far
    m_excludeUnrated, \* LibraryFilterProxyModel::m_excludeUnrated
    m_excludeRated,  \* LibraryFilterProxyModel::m_excludeRated
    m_trackList,     \* AlbumWindow::m_trackList: the items of the tree
    m_excludeUnratedCheckbox, \* LibraryView::m_excludeUnratedCheckbox: [checked, enabled]
    m_excludeRatedCheckbox, \* LibraryView::m_excludeRatedCheckbox: [checked, enabled]
    m_nowPlaying,    \* MainWindow::m_nowPlaying: [songPath, ratingGroup, isPlaying]
    m_current,       \* SystemTrayIcon::m_current: [filePath, rating, isPlaying]
    m_sessionFilePath, \* SystemTrayIcon::m_sessionFilePath
    m_sessionRatingBefore, \* SystemTrayIcon::m_sessionRatingBefore
    session,         \* the ratings the popup showed before the first onRateStar of
                     \* the current track: [track, first, sinceUndo]
    trayCall,        \* the last slot of the tray popup run: [op, session]
    m_operationInProgress, \* MobilePanel::m_operationInProgress
    m_haltIfNewerCheck, \* MobilePanel::m_haltIfNewerCheck is checked
    mobileProcs,     \* the state of MobilePanel's m_checkUpdateProcess,
                     \* m_uploadProcess and m_operationProcess
    operationSlot,   \* the slot connected to finished of m_operationProcess
    progressMaximum, \* the maximum of MobilePanel::m_progressBar
    pendingCheck,    \* a check-update asked for by startUpload has not finished
    lastTotal,       \* the M of the last UPLOAD: [N/M] line of this upload, 0 if none
    linesRead,       \* progress lines read since the process was started
    mobileOps        \* operations asked of the mobile panel so far

libVars == << m_tracks, m_dsvPath, m_watcher, m_debounceTimer >>
appVars == << m_fileWatcher, shots, panelTracks >>
histVars == << handled, sinceNotif, bursts, reloads, reloadGaps, boundary, notified, parses,
              clientLoads >>
fileVars == << dbFile, libVars, appVars, histVars, written >>
genericVars == << m_scriptProcess, m_currentOpId, procs, rejected >>
rateVars == << m_pendingFilePath, m_pendingStars, rateProcs >>
panelVars == << killShots, m_logOutput, scriptCalls, buttonsEnabled, newTracksShot >>
runnerVars == << genericVars, rateVars, calls, panelVars >>
cliVars == << argv, existing >>
confVars == << confFile, m_filePath, m_rawLines, m_values, confLoaded, confCalls >>
boxVars == << m_excludeUnratedCheckbox, m_excludeRatedCheckbox >>
viewVars == << m_excludeUnrated, m_excludeRated, m_trackList, boxVars >>
trayVars == << m_nowPlaying, m_current, m_sessionFilePath, m_sessionRatingBefore,
              session, trayCall >>
\* the state of the windows that stand apart from the library and the runner
mobileVars == << m_operationInProgress, m_haltIfNewerCheck, mobileProcs, operationSlot,
                progressMaximum, pendingCheck, lastTotal, linesRead, mobileOps >>
guiVars == << trayVars, mobileVars >>
toolVars == << cliVars, confVars, viewVars, guiVars >>
otherThanLibrary == << runnerVars, toolVars >>
otherThanRunner == << fileVars, toolVars >>
vars == << fileVars, runnerVars, toolVars, emitted, lastCall >>

(***************************************************************************)
(* More bounds, and the timing constants.                                  *)
(***************************************************************************)
\* file changes reported to the watchers in one run
MaxNotifs == 2
\* notifications a watcher holds undelivered
MaxPending == 2
\* loads the model's clients ask for on their own in one run
MaxLoads == 2

\* librarymodel.cpp:24   m_debounceTimer->setInterval(500);
DebounceInterval == 500
\* mainwindow.cpp:628    QTimer::singleShot(500, ...)
ShotDelay == 500
\* the step of the model's clock: half a quiescence window
TickMs == DebounceInterval \div 2
\* sinceNotif stops counting here: "more than one window ago"
LongAgo == DebounceInterval + TickMs

\* the one database path of a run (MainWindow::m_databasePath)
DbPath == "musiclib.dsv"

(***************************************************************************)
(* The file system and QFileSystemWatcher.                                 *)
(***************************************************************************)
\* QFile::exists(path)
fileExists(path) == path = DbPath /\ dbFile.exists

NoWatcher == [files |-> {}, live |-> FALSE, events |-> << >>]

\* QFileSystemWatcher::addPath: a path that does not exist is not added
addPath(w, path) ==
    IF fileExists(path)
    THEN [files |-> w.files \cup {path}, live |-> TRUE, events |-> w.events]
    ELSE w

\* QFileSystemWatcher::removePaths(files()): the watch descriptors are closed,
\* what they still had to report is dropped
removePaths(w) == NoWatcher

\* a change of the watched file reaches a watcher whose watch is on the file
\* that changed; "removed" (deleted or renamed over) ends that watch
report(w, kind) ==
    IF w.live
    THEN [files |-> w.files,
          live |-> kind = "changed",
          events |-> Append(w.events, kind)]
    ELSE w

\* the watcher takes its oldest report: a removed file leaves files()
takeEvent(w) ==
    [files |-> IF Head(w.events) = "removed" THEN w.files \ {DbPath} ELSE w.files,
     live |-> w.live,
     events |-> Tail(w.events)]

(***************************************************************************)
(* LibraryModel.                                                           *)
(***************************************************************************)
\* emit loadError(tr("Cannot open database file: %1").arg(path))
loadError(path) == [sig |-> "loadError", path |-> path]

\* what a handler leaves in lastCall
call(op, opened, ret, pre) == [op |-> op, opened |-> opened, ret |-> ret, pre |-> pre]

\* a step that is no call of LibraryModel
noCall(op) == call(op, FALSE, FALSE, << >>)

\* parseFile with the reset done before the open: a failed open empties the model
parseFile_resetsFirst(path, tracks) ==
    IF fileExists(path)
    THEN [opened |-> TRUE, tracks |-> parseContent(dbFile.content), sigs |-> << >>]
    ELSE [opened |-> FALSE, tracks |-> << >>, sigs |-> << loadError(path) >>]

\* LibraryModel::parseFile(path) on a model that holds tracks: whether the
\* open succeeded, the record set the model holds afterwards, the signals
parseFile(path, tracks) ==
    IF fileExists(path)
    THEN [opened |-> TRUE, tracks |-> parseContent(dbFile.content), sigs |-> << >>]
    ELSE [opened |-> FALSE, tracks |-> tracks, sigs |-> << loadError(path) >>]

\* LibraryModel::loadFromFile(path) on m_libraryModel
loadFromFile(path) ==
    LET cleared == IF m_watcher.files # {} THEN removePaths(m_watcher) ELSE m_watcher
        r == parseFile(path, m_tracks)
    IN /\ m_dsvPath' = path
       /\ m_watcher' = addPath(cleared, path)
       /\ m_tracks' = r.tracks
       /\ emitted' = r.sigs
       /\ parses' = parses + 1
       /\ lastCall' = call("loadFromFile", r.opened, r.tracks # << >>, m_tracks)

\* QTimer::start() on the single-shot debounce timer: (re)armed for a full interval
startTimer == [active |-> TRUE, left |-> DebounceInterval]

\* onFileChanged that leaves a running timer alone: the reload comes one
\* window after the first notification of a burst
onFileChanged_keepsRunningTimer ==
    /\ m_watcher.events # << >>
    /\ LET w == takeEvent(m_watcher)
       IN m_watcher' = IF m_dsvPath \notin w.files THEN addPath(w, m_dsvPath) ELSE w
    /\ m_debounceTimer' = IF m_debounceTimer.active THEN m_debounceTimer ELSE startTimer
    /\ emitted' = << >>
    /\ lastCall' = noCall("onFileChanged")
    /\ handled' = handled + 1
    /\ sinceNotif' = 0
    /\ bursts' = IF sinceNotif > DebounceInterval THEN bursts + 1 ELSE bursts
    /\ boundary' = (boundary \/ sinceNotif = DebounceInterval)
    /\ UNCHANGED << dbFile, m_tracks, m_dsvPath, appVars, reloads, reloadGaps,
                    notified, parses, clientLoads, written, otherThanLibrary >>

\* the watcher delivers fileChanged and LibraryModel::onFileChanged runs
onFileChanged ==
    /\ m_watcher.events # << >>
    /\ LET w == takeEvent(m_watcher)
       IN m_watcher' = IF m_dsvPath \notin w.files THEN addPath(w, m_dsvPath) ELSE w
    /\ m_debounceTimer' = startTimer
    /\ emitted' = << >>
    /\ lastCall' = noCall("onFileChanged")
    /\ handled' = handled + 1
    /\ sinceNotif' = 0
    /\ bursts' = IF sinceNotif > DebounceInterval THEN bursts + 1 ELSE bursts
    /\ boundary' = (boundary \/ sinceNotif = DebounceInterval)
    /\ UNCHANGED << dbFile, m_tracks, m_dsvPath, appVars, reloads, reloadGaps,
                    notified, parses, clientLoads, written, otherThanLibrary >>

\* reloadDebounced that arms the timer again when the file cannot be opened
reloadDebounced_retries ==
    /\ m_debounceTimer.active
    /\ m_debounceTimer.left = 0
    /\ LET r == parseFile(m_dsvPath, m_tracks)
       IN /\ m_tracks' = r.tracks
          /\ emitted' = r.sigs
          /\ lastCall' = call("reloadDebounced", r.opened, FALSE, m_tracks)
          /\ m_debounceTimer' = IF r.opened THEN [active |-> FALSE, left |-> 0]
                                ELSE startTimer
    /\ reloads' = reloads + 1
    /\ reloadGaps' = reloadGaps \cup {sinceNotif}
    /\ parses' = parses + 1
    /\ UNCHANGED << dbFile, m_dsvPath, m_watcher, appVars, handled, sinceNotif, bursts,
                    boundary, notified, clientLoads, written, otherThanLibrary >>

\* the debounce timer times out and LibraryModel::reloadDebounced runs
reloadDebounced ==
    /\ m_debounceTimer.active
    /\ m_debounceTimer.left = 0
    /\ m_debounceTimer' = [active |-> FALSE, left |-> 0]
    /\ LET r == parseFile(m_dsvPath, m_tracks)
       IN /\ m_tracks' = r.tracks
          /\ emitted' = r.sigs
          /\ lastCall' = call("reloadDebounced", r.opened, FALSE, m_tracks)
    /\ reloads' = reloads + 1
    /\ reloadGaps' = reloadGaps \cup {sinceNotif}
    /\ parses' = parses + 1
    /\ UNCHANGED << dbFile, m_dsvPath, m_watcher, appVars, handled, sinceNotif, bursts,
                    boundary, notified, clientLoads, written, otherThanLibrary >>

\* a client of the model (LibraryView::loadDatabase, MainWindow) calls loadFromFile
ClientLoad ==
    /\ clientLoads < MaxLoads
    /\ clientLoads' = clientLoads + 1
    /\ loadFromFile(DbPath)
    /\ UNCHANGED << dbFile, m_debounceTimer, appVars, handled, sinceNotif, bursts, reloads,
                    reloadGaps, boundary, notified, written, otherThanLibrary >>

\* LibraryModel::rowCount() of the root index
rowCount == Len(m_tracks)

\* trackAt that takes a negative row for the first row
trackAt_firstForNegative(row) ==
    IF row >= Len(m_tracks) \/ m_tracks = << >> THEN EmptyTrackRecord
    ELSE IF row < 0 THEN m_tracks[1]
    ELSE m_tracks[row + 1]

\* LibraryModel::trackAt(row)
trackAt(row) ==
    IF row < 0 \/ row >= Len(m_tracks) THEN EmptyTrackRecord
    ELSE m_tracks[row + 1]

\* rows asked for: -MaxRow..MaxRow
MaxRow == 3

\* a view asks the model for the record of a row
TrackAt ==
    /\ \E row \in (0 - MaxRow)..MaxRow :
          lastCall' = [op |-> "trackAt", row |-> row, ret |-> trackAt(row)]
    /\ emitted' = << >>
    /\ UNCHANGED << fileVars, otherThanLibrary >>

(***************************************************************************)
(* Time.                                                                   *)
(***************************************************************************)
\* a timer that is due runs before the clock moves on
timerDue ==
    \/ m_debounceTimer.active /\ m_debounceTimer.left = 0
    \/ shots # << >> /\ Head(shots) = 0

\* TickMs pass
Tick ==
    /\ ~timerDue
    /\ m_debounceTimer' =
          IF m_debounceTimer.active
          THEN [active |-> TRUE, left |-> m_debounceTimer.left - TickMs]
          ELSE m_debounceTimer
    /\ shots' = [i \in 1..Len(shots) |-> shots[i] - TickMs]
    /\ sinceNotif' = IF sinceNotif + TickMs > LongAgo THEN LongAgo ELSE sinceNotif + TickMs
    /\ emitted' = << >>
    /\ lastCall' = noCall("Tick")
    /\ UNCHANGED << dbFile, m_tracks, m_dsvPath, m_watcher, m_fileWatcher,
                    panelTracks, handled, bursts, reloads, reloadGaps, boundary, notified,
                    parses, clientLoads, written, otherThanLibrary >>

(***************************************************************************)
(* The backend scripts and the user change the database file.              *)
(***************************************************************************)
\* the lines "h" / the lines "h", "a^b", a blank line, "c" (no line break
\* after it)
ContentHeaderOnly == << "h", "\n" >>
ContentTwoRows == << "h", "\n", "a", "^", "b", "\n", "\n", "c" >>
DbContents == { ContentHeaderOnly, ContentTwoRows }

\* a watcher can take one more report
roomFor(w) == w.live => (notified < MaxNotifs /\ Len(w.events) < MaxPending)

\* the file changes to f; each watching watcher is told kind
fileChange(f, kind) ==
    /\ roomFor(m_watcher)
    /\ roomFor(m_fileWatcher)
    /\ dbFile' = f
    /\ m_watcher' = report(m_watcher, kind)
    /\ m_fileWatcher' = report(m_fileWatcher, kind)
    /\ notified' = IF m_watcher.live \/ m_fileWatcher.live THEN notified + 1 ELSE notified
    /\ emitted' = << >>
    /\ UNCHANGED << m_tracks, m_dsvPath, m_debounceTimer, shots, panelTracks,
                    handled, sinceNotif, bursts, reloads, reloadGaps, boundary, parses, clientLoads,
                    written, otherThanLibrary >>

\* a script rewrites the file where it is
WriteInPlace ==
    /\ dbFile.exists
    /\ \E c \in DbContents : fileChange([exists |-> TRUE, content |-> c], "changed")
    /\ lastCall' = noCall("WriteInPlace")

\* a script writes a temporary file and renames it over the database (tmp + mv)
ReplaceByRename ==
    /\ \E c \in DbContents : fileChange([exists |-> TRUE, content |-> c], "removed")
    /\ lastCall' = noCall("ReplaceByRename")

\* the file is removed
DeleteFile ==
    /\ dbFile.exists
    /\ fileChange([exists |-> FALSE, content |-> << >>], "removed")
    /\ lastCall' = noCall("DeleteFile")

(***************************************************************************)
(* ScriptRunner.                                                           *)
(***************************************************************************)
\* calls of runScript and rate in one run
MaxCalls == 3
\* exit codes a script ends with: 0..MaxExitCode
MaxExitCode == 4
\* scriptrunner.cpp:79   case 3: the exit code that means "deferred"
DeferredCode == 3
\* scriptrunner.cpp:247  a crash is reported as exit code -2
CrashCode == -2
\* scriptrunner.cpp:155  the code of a call that starts no process
NotStartedCode == -1
\* a process terminate() was never called on
NotAsked == -1

ExitCodes == 0..MaxExitCode
OpIds == { "build", "tagclean-preview" }
FilePaths == { "/m/a.mp3", "/m/b.mp3" }
Stars == { 0, 5 }
\* what a script leaves on its standard error
StderrTexts == { << >>, << " ", "\n" >>, << " ", "e", "\n" >> }

Digits == << "0", "1", "2", "3", "4", "5", "6", "7", "8", "9" >>

RECURSIVE number(_)
\* QString::number(n), QString::arg(n): n in decimal
number(n) ==
    IF n < 0 THEN << "-" >> \o number(0 - n)
    ELSE IF n < 10 THEN << Digits[n + 1] >>
    ELSE number(n \div 10) \o << Digits[(n % 10) + 1] >>

\* QString("Script exited with code %1").arg(exitCode)
exitedWithCode(exitCode) == << "Script exited with code " >> \o number(exitCode)

\* the value of a decimal digit
digitValue(c) == CHOOSE d \in 0..9 : Digits[d + 1] = c

isDigit(c) == \E d \in 0..9 : Digits[d + 1] = c

RECURSIVE dropLeadingZeros(_)
dropLeadingZeros(ds) ==
    IF Len(ds) > 1 /\ Head(ds) = "0" THEN dropLeadingZeros(Tail(ds)) ELSE ds

RECURSIVE digitsLeq(_, _)
\* for digit sequences of one length: a <= b as numbers
digitsLeq(a, b) ==
    IF a = << >> THEN TRUE
    ELSE IF digitValue(Head(a)) # digitValue(Head(b))
    THEN digitValue(Head(a)) < digitValue(Head(b))
    ELSE digitsLeq(Tail(a), Tail(b))

RECURSIVE valueOf(_)
\* the number a sequence of digits stands for
valueOf(ds) ==
    IF ds = << >> THEN 0
    ELSE valueOf(SubSeq(ds, 1, Len(ds) - 1)) * 10 + digitValue(ds[Len(ds)])

\* the largest int, in digits: 2^31 - 1
IntMaxDigits == << "2", "1", "4", "7", "4", "8", "3", "6", "4", "7" >>
\* the magnitude of the smallest int, in digits: 2^31
IntMinDigits == << "2", "1", "4", "7", "4", "8", "3", "6", "4", "8" >>

\* whether the digits ds, with the sign, stand for a value of a 32-bit int
fitsInt(ds, negative) ==
    LET d == dropLeadingZeros(ds)
    IN \/ Len(d) < Len(IntMaxDigits)
       \/ /\ Len(d) = Len(IntMaxDigits)
          /\ digitsLeq(d, IF negative THEN IntMinDigits ELSE IntMaxDigits)

\* QString::toInt(&ok): white space around the number is skipped, one sign is
\* taken, the rest must be decimal digits of a value that fits an int;
\* the value is 0 when ok is false
toInt(text) ==
    LET t == trimmed(text)
        negative == t # << >> /\ Head(t) = "-"
        signed == t # << >> /\ Head(t) \in { "-", "+" }
        ds == IF signed THEN Tail(t) ELSE t
        ok == /\ ds # << >>
              /\ \A i \in 1..Len(ds) : isDigit(ds[i])
              /\ fitsInt(ds, negative)
    IN IF ~ok THEN [ok |-> FALSE, value |-> 0]
       ELSE IF negative /\ dropLeadingZeros(ds) = IntMinDigits
       THEN [ok |-> TRUE, value |-> (0 - valueOf(IntMaxDigits)) - 1]
       ELSE [ok |-> TRUE,
             value |-> IF negative THEN 0 - valueOf(ds) ELSE valueOf(ds)]

(***************************************************************************)
(* musiclib-cli: the rate command.                                         *)
(***************************************************************************)
\* arguments on a command line
MaxArgs == 3
\* command_handler.cpp:300  the largest rating
MaxRating == 5
\* cli_utils.cpp:24  what executeScript returns when the script did not run
ScriptNotRun == 2

\* the words of a command line: ratings, a word that is no number, paths
ArgWords == { << "4" >>, << "0" >>, << "6" >>, << "/", "s" >>, << "/", "n" >> }
\* the paths that may exist; a file may be named like a number
PathWords == { << "/", "s" >>, << "4" >> }

\* CLIUtils::executeScript(scriptName, args); found: resolveScriptPath finds the
\* script, started: waitForStarted, exitCode: the exit code of the script
executeScript(scriptName, args, found, started, exitCode) ==
    IF ~found \/ ~started
    THEN [ran |-> FALSE, script |-> scriptName, args |-> args, ret |-> ScriptNotRun]
    ELSE [ran |-> TRUE, script |-> scriptName, args |-> args, ret |-> exitCode]

\* what a handler gives back without running a script
notRun(ret) == [ran |-> FALSE, script |-> "", args |-> << >>, ret |-> ret]

\* CommandHandler::handleRate(args)
handleRate(args, found, started, exitCode) ==
    IF Len(args) # 1 /\ Len(args) # 2 THEN notRun(1)
    ELSE LET filepath == IF Len(args) = 1 THEN << >> ELSE args[1]
             ratingStr == IF Len(args) = 1 THEN args[1] ELSE args[2]
             rating == toInt(ratingStr)
         IN IF Len(args) = 2 /\ filepath \notin existing THEN notRun(1)
            ELSE IF ~rating.ok \/ rating.value < 0 \/ rating.value > MaxRating
            THEN notRun(1)
            ELSE executeScript("musiclib_rate.sh",
                               << ratingStr >> \o
                                  (IF filepath # << >> THEN << filepath >> ELSE << >>),
                               found, started, exitCode)

\* musiclib-cli rate <argv> is run
HandleRate ==
    /\ \E found \in BOOLEAN, started \in BOOLEAN, exitCode \in ExitCodes :
          lastCall' = [op |-> "handleRate", found |-> found, started |-> started,
                       exitCode |-> exitCode,
                       ret |-> handleRate(argv, found, started, exitCode)]
    /\ emitted' = << >>
    /\ UNCHANGED << fileVars, runnerVars, toolVars >>

(***************************************************************************)
(* ConfWriter: musiclib.conf read and rewritten.                           *)
(***************************************************************************)
\* the characters of keys and of file names, in the order of their codes
UpperCase ==
    << "A", "B", "C", "D", "E", "F", "G", "H", "I", "J", "K", "L", "M",
       "N", "O", "P", "Q", "R", "S", "T", "U", "V", "W", "X", "Y", "Z" >>
LowerCase ==
    << "a", "b", "c", "d", "e", "f", "g", "h", "i", "j", "k", "l", "m",
       "n", "o", "p", "q", "r", "s", "t", "u", "v", "w", "x", "y", "z" >>
Alphabet ==
    << ".", "/" >> \o Digits \o << "?" >> \o UpperCase \o << "_" >> \o LowerCase

\* [A-Za-z_]
isKeyStart(c) ==
    \/ \E i \in 1..Len(UpperCase) : UpperCase[i] = c
    \/ \E i \in 1..Len(LowerCase) : LowerCase[i] = c
    \/ c = "_"
\* [A-Za-z0-9_]
isKeyChar(c) == isKeyStart(c) \/ isDigit(c)

ord(c) == CHOOSE i \in 1..Len(Alphabet) : Alphabet[i] = c

RECURSIVE textLess(_, _)
\* QString's operator< on texts over the alphabet
textLess(a, b) ==
    IF a = << >> THEN b # << >>
    ELSE IF b = << >> THEN FALSE
    ELSE IF Head(a) = Head(b) THEN textLess(Tail(a), Tail(b))
    ELSE ord(Head(a)) < ord(Head(b))

RECURSIVE sortedTexts(_)
\* the keys of a QMap as its iterator gives them: ascending
sortedTexts(S) ==
    IF S = {} THEN << >>
    ELSE LET least == CHOOSE x \in S : \A y \in S \ {x} : textLess(x, y)
         IN << least >> \o sortedTexts(S \ {least})

\* s.indexOf(c, from), positions counted from 1; 0 when there is none
indexOf(s, c, from) ==
    LET at == { i \in from..Len(s) : s[i] = c }
    IN IF at = {} THEN 0 ELSE CHOOSE i \in at : \A j \in at : i <= j

\* the length of the key at the start of t: ^([A-Za-z_][A-Za-z0-9_]*)=
keyLength(t) ==
    IF t = << >> \/ ~isKeyStart(t[1]) THEN 0
    ELSE LET ends == { n \in 1..(Len(t) - 1) :
                          /\ \A i \in 1..n : isKeyChar(t[i])
                          /\ t[n + 1] = "=" }
         IN IF ends = {} THEN 0 ELSE CHOOSE n \in ends : TRUE

\* rawValue.indexOf("  #"), counted from 1; 0 when there is none
indexOfInlineHash(s) ==
    LET at == { i \in 1..(Len(s) - 2) : s[i] = " " /\ s[i + 1] = " " /\ s[i + 2] = "#" }
    IN IF at = {} THEN 0 ELSE CHOOSE i \in at : \A j \in at : i <= j

\* the text between the quote at the start of rawValue and the next one like
\* it, or all that follows when the quote is not closed
unquoted(rawValue, quote) ==
    LET closeQuote == indexOf(rawValue, quote, 2)
    IN IF closeQuote > 0 THEN SubSeq(rawValue, 2, closeQuote - 1)
       ELSE Tail(rawValue)

\* ConfWriter::parseLine(line, key, value): [ok, key, value]
parseLine(line) ==
    LET t == trimmed(line)
        n == keyLength(t)
        rawValue == SubSeq(t, n + 2, Len(t))
        hashPos == indexOfInlineHash(rawValue)
    IN IF t = << >> \/ Head(t) = "#" \/ n = 0
       THEN [ok |-> FALSE, key |-> << >>, value |-> << >>]
       ELSE [ok |-> TRUE,
             key |-> SubSeq(t, 1, n),
             value |-> IF rawValue # << >> /\ Head(rawValue) = "\""
                       THEN unquoted(rawValue, "\"")
                       ELSE IF rawValue # << >> /\ Head(rawValue) = "'"
                       THEN unquoted(rawValue, "'")
                       ELSE trimmed(IF hashPos > 0 THEN SubSeq(rawValue, 1, hashPos - 1)
                                    ELSE rawValue)]

TrueText == << "t", "r", "u", "e" >>
FalseText == << "f", "a", "l", "s", "e" >>

\* the value as saveToFile writes it: numbers and booleans bare, other
\* texts in double quotes
written_value(val) ==
    IF toInt(val).ok \/ val = TrueText \/ val = FalseText THEN val
    ELSE << "\"" >> \o val \o << "\"" >>

\* the first match of \s+#\s+.*$ in rawLine, empty when there is none
inlineComment(rawLine) ==
    LET starts == { i \in 1..Len(rawLine) :
                       /\ isSpace(rawLine[i])
                       /\ \E j \in (i + 1)..(Len(rawLine) - 1) :
                             /\ \A k \in i..(j - 1) : isSpace(rawLine[k])
                             /\ rawLine[j] = "#"
                             /\ isSpace(rawLine[j + 1]) }
    IN IF starts = {} THEN << >>
       ELSE SubSeq(rawLine, CHOOSE i \in starts : \A j \in starts : i <= j, Len(rawLine))

\* the loop body of saveToFile that writes the other lines trimmed
savedLine_trimsOthers(rawLine) ==
    LET p == parseLine(rawLine)
    IN IF p.ok /\ p.key \in DOMAIN m_values
       THEN p.key \o << "=" >> \o written_value(m_values[p.key]) \o inlineComment(rawLine)
            \o << "\n" >>
       ELSE trimmed(rawLine) \o << "\n" >>

\* the loop body of saveToFile: what is written for one line of m_rawLines
savedLine(rawLine) ==
    LET p == parseLine(rawLine)
    IN IF p.ok /\ p.key \in DOMAIN m_values
       THEN p.key \o << "=" >> \o written_value(m_values[p.key]) \o inlineComment(rawLine)
            \o << "\n" >>
       ELSE rawLine \o << "\n" >>

\* writtenKeys after the first loop of saveToFile
writtenKeys ==
    { parseLine(m_rawLines[i]).key :
        i \in { j \in 1..Len(m_rawLines) :
                   parseLine(m_rawLines[j]).ok
                   /\ parseLine(m_rawLines[j]).key \in DOMAIN m_values } }

RECURSIVE concat(_)
\* the texts of a sequence one after the other
concat(texts) == IF texts = << >> THEN << >> ELSE Head(texts) \o concat(Tail(texts))

\* what saveToFile writes to the stream
savedContent ==
    LET fresh == sortedTexts(DOMAIN m_values \ writtenKeys)
    IN concat([i \in 1..Len(m_rawLines) |-> savedLine(m_rawLines[i])])
       \o concat([i \in 1..Len(fresh) |->
                    fresh[i] \o << "=" >> \o written_value(m_values[fresh[i]]) \o << "\n" >>])

\* calls on the ConfWriter in one run
MaxConfCalls == 4
\* lines of musiclib.conf
MaxConfLines == 2

ConfPath == "musiclib.conf"

\* a result of a call on the ConfWriter
confCall(op, ret) == [op |-> op, ret |-> ret]

\* ConfWriter::loadFromFile(filePath)
ConfWriter_loadFromFile(filePath) ==
    /\ m_filePath' = filePath
    /\ IF ~confFile.exists
       THEN /\ m_rawLines' = << >>
            /\ m_values' = << >>
            /\ confLoaded' = << >>
            /\ lastCall' = confCall("ConfWriter::loadFromFile", FALSE)
       ELSE LET lines == readLines(confFile.content)
                keys == { parseLine(lines[i]).key :
                            i \in { j \in 1..Len(lines) : parseLine(lines[j]).ok } }
            IN /\ m_rawLines' = lines
               /\ m_values' =
                     [k \in keys |->
                         LET last == CHOOSE i \in 1..Len(lines) :
                                        /\ parseLine(lines[i]).ok
                                        /\ parseLine(lines[i]).key = k
                                        /\ \A j \in (i + 1)..Len(lines) :
                                              ~(parseLine(lines[j]).ok
                                                /\ parseLine(lines[j]).key = k)
                         IN parseLine(lines[last]).value]
               /\ confLoaded' = lines
               /\ lastCall' = confCall("ConfWriter::loadFromFile", TRUE)

\* ConfWriter::saveToFile(filePath); canWrite: the file can be opened for writing
saveToFile(filePath, canWrite) ==
    IF filePath = "" \/ ~canWrite
    THEN /\ lastCall' = confCall("save", FALSE)
         /\ UNCHANGED confFile
    ELSE /\ confFile' = [exists |-> TRUE, content |-> savedContent]
         /\ lastCall' = confCall("save", TRUE)

\* m_values[key] = value
stored(key, value) ==
    [k \in DOMAIN m_values \cup {key} |-> IF k = key THEN value ELSE m_values[k]]

\* ConfWriter::setValue(key, value)
setValue(key, value) == m_values' = stored(key, value)

\* ConfWriter::setIntValue(key, value)
setIntValue(key, value) == m_values' = stored(key, number(value))

\* ConfWriter::setBoolValue(key, value)
setBoolValue(key, value) == m_values' = stored(key, IF value THEN TrueText ELSE FalseText)

\* the keys and values the settings are saved with
ConfKeys == { << "A" >>, << "B", "_", "2" >>, << "N" >> }
ConfTexts == { << "/", "m" >>, << "x", " ", "y" >> }
ConfInts == { 0 - 1, 42 }

\* one more call on the ConfWriter, its file and the rest of the world as they are
confStep == confCalls < MaxConfCalls /\ confCalls' = confCalls + 1 /\ emitted' = << >>

\* the GUI reads musiclib.conf
ConfLoad ==
    /\ confStep
    /\ ConfWriter_loadFromFile(ConfPath)
    /\ UNCHANGED << fileVars, runnerVars, cliVars, viewVars, guiVars, confFile >>

\* the settings dialog stores a value
ConfSet ==
    /\ confStep
    /\ \E key \in ConfKeys :
          \/ \E value \in ConfTexts : setValue(key, value)
          \/ \E value \in ConfInts : setIntValue(key, value)
          \/ \E value \in BOOLEAN : setBoolValue(key, value)
    /\ lastCall' = confCall("set", TRUE)
    /\ UNCHANGED << fileVars, runnerVars, cliVars, viewVars, guiVars, confFile, m_filePath, m_rawLines,
                    confLoaded >>

\* ConfWriter::save()
ConfSave ==
    /\ confStep
    /\ \E canWrite \in BOOLEAN : saveToFile(m_filePath, canWrite)
    /\ UNCHANGED << fileVars, runnerVars, cliVars, viewVars, guiVars, m_filePath, m_rawLines, m_values,
                    confLoaded >>

\* the lines musiclib.conf is made of
ConfLinePool ==
    { << >>,
      << " ", " ", "#", " ", "c", " " >>,
      << "A", "=", "1" >>,
      << " ", "A", "=", "\"", "x", " ", "y", "\"", " ", " ", "#", " ", "c" >>,
      << "B", "_", "2", "=", "t", "r", "u", "e" >>,
      << "2", "B", "=", "1" >>,
      << "e", "x", "p", "o", "r", "t", " ", "A", "=", "1" >> }

(***************************************************************************)
(* What the views show: LibraryModel::data, the filter proxy of the        *)
(* LibraryView and the track list of the AlbumWindow.                      *)
(***************************************************************************)
RECURSIVE leftPadded(_, _, _)
\* text filled on the left up to a field width
leftPadded(text, width, fill) ==
    IF Len(text) >= width THEN text ELSE leftPadded(<< fill >> \o text, width, fill)

\* formatDuration that writes the seconds without the fill
formatDuration_unpadded(ms) ==
    LET conv == toInt(ms)
        total == conv.value
        secs == total \div 1000
    IN IF ~conv.ok \/ total <= 0 THEN ms
       ELSE number(secs \div 60) \o << ":" >> \o number(secs % 60)

\* LibraryModel::formatDuration(ms)
formatDuration(ms) ==
    LET conv == toInt(ms)
        total == conv.value
        secs == total \div 1000
    IN IF ~conv.ok \/ total <= 0 THEN ms
       ELSE number(secs \div 60) \o << ":" >> \o leftPadded(number(secs % 60), 2, "0")

RECURSIVE dropTrailingZeros(_)
dropTrailingZeros(ds) ==
    IF ds # << >> /\ ds[Len(ds)] = "0" THEN dropTrailingZeros(SubSeq(ds, 1, Len(ds) - 1))
    ELSE ds

\* a double that a decimal text stands for: sign, integer digits without
\* leading zeros, fraction digits without trailing zeros
decimal(neg, whole, frac) ==
    [neg |-> neg,
     whole |-> IF whole = << >> THEN << "0" >> ELSE dropLeadingZeros(whole),
     frac |-> dropTrailingZeros(frac)]

\* 0.0
ZeroDouble == decimal(FALSE, << >>, << >>)

\* QString::toDouble(&ok) of a text in plain decimal notation: white space
\* around the number is skipped, one sign is taken, then digits with at most
\* one point among them and a digit on one side of it at least; the value is
\* 0.0 when ok is false
toDouble(text) ==
    LET t == trimmed(text)
        neg == t # << >> /\ Head(t) = "-"
        signed == t # << >> /\ Head(t) \in { "-", "+" }
        body == IF signed THEN Tail(t) ELSE t
        point == indexOf(body, ".", 1)
        whole == IF point = 0 THEN body ELSE SubSeq(body, 1, point - 1)
        frac == IF point = 0 THEN << >> ELSE SubSeq(body, point + 1, Len(body))
        ok == /\ whole \o frac # << >>
              /\ \A i \in 1..Len(whole) : isDigit(whole[i])
              /\ \A i \in 1..Len(frac) : isDigit(frac[i])
    IN IF ok THEN [ok |-> TRUE, value |-> decimal(neg, whole, frac)]
       ELSE [ok |-> FALSE, value |-> ZeroDouble]

\* d <= 0.0
notAboveZero(d) == d.neg \/ (d.whole = << "0" >> /\ d.frac = << >>)

\* the serial of 1970-01-01: days from 1899-12-30
EpochSerial == 25569
SecsPerDay == 86400

\* integer digits from which on (serial - 25569) * 86400 * 1000 is beyond a
\* 64-bit integer while (serial - 25569) * 86400 is not yet: serials of 1e12
\* days and more
BeyondDateTimeDigits == 13

RECURSIVE power10(_)
power10(k) == IF k = 0 THEN 1 ELSE 10 * power10(k - 1)

\* static_cast<qint64>((serial - 25569.0) * 86400.0) of a serial above zero:
\* the product cut towards zero. The serials here have fractions that are
\* sums of powers of two, so the double arithmetic is exact.
unixSecsOf(serial) ==
    LET days == valueOf(serial.whole) - EpochSerial
        scale == power10(Len(serial.frac))
        part == valueOf(serial.frac) * SecsPerDay
    IN IF days >= 0 THEN days * SecsPerDay + (part \div scale)
       ELSE days * SecsPerDay + ((part + scale - 1) \div scale)

\* QDateTime::fromSecsSinceEpoch of the seconds of a serial above zero: not
\* valid when the milliseconds do not fit
fromSecsSinceEpoch(serial) ==
    IF Len(serial.whole) >= BeyondDateTimeDigits THEN [valid |-> FALSE, secs |-> 0]
    ELSE [valid |-> TRUE, secs |-> unixSecsOf(serial)]

\* QDateTime::toString(format) of the instant secs in the time zone of the
\* system: the text is kept as the format and the instant it was made from
dateText(secs, format) == << format, "@" >> \o number(secs)

\* LibraryModel::formatLastPlayed(serialTime)
formatLastPlayed(serialTime) ==
    LET conv == toDouble(serialTime)
        dt == fromSecsSinceEpoch(conv.value)
    IN IF ~conv.ok \/ notAboveZero(conv.value) THEN EmptyText
       ELSE IF ~dt.valid THEN EmptyText
       ELSE dateText(dt.secs, "MM/dd/yy")

\* AlbumWindow::sqlTimeToDate(sqlTime)
sqlTimeToDate(sqlTime) ==
    LET dt == fromSecsSinceEpoch(sqlTime)
    IN IF notAboveZero(sqlTime) THEN << "Never" >>
       ELSE IF ~dt.valid THEN << "Invalid" >>
       ELSE dateText(dt.secs, "MM/dd/yyyy")

\* AlbumWindow::starsToDisplay(groupDesc)
starsToDisplay(groupDesc) ==
    IF groupDesc <= 0 \/ groupDesc > 5 THEN << "EM DASH" >>
    ELSE [i \in 1..5 |-> IF i <= groupDesc THEN "BLACK STAR" ELSE "WHITE STAR"]

\* QFileInfo(songPath).fileName(): what follows the last slash
fileName(songPath) ==
    LET slashes == { i \in 1..Len(songPath) : songPath[i] = "/" }
    IN IF slashes = {} THEN songPath
       ELSE SubSeq(songPath, (CHOOSE i \in slashes : \A j \in slashes : j <= i) + 1,
                   Len(songPath))

\* AlbumWindow::extractTrackNumber(songPath)
extractTrackNumber(songPath) ==
    LET basename == fileName(songPath)
    IN IF Len(basename) >= 2 THEN SubSeq(basename, 1, 2) ELSE << "?", "?" >>

\* QVariant values
invalidVariant == [type |-> "invalid", value |-> << >>]
variant(type, value) == [type |-> type, value |-> value]
\* QColor(255, 255, 220)
PaleYellow == << 255, 255, 220 >>

GroupDescColumn == 11
LastTimePlayedColumn == 12
SongLengthColumn == 8

\* LibraryModel::data(index, role) over the records tracks, for the index
\* that index(row, col) gives: not valid outside the rows and columns
dataOver(tracks, row, col, role) ==
    IF row < 0 \/ row >= Len(tracks) \/ col < 0 \/ col >= COUNT THEN invalidVariant
    ELSE LET track == tracks[row + 1]
         IN IF role = "DisplayRole"
            THEN variant("QString",
                         IF col = SongLengthColumn THEN formatDuration(track.songLength)
                         ELSE IF col = LastTimePlayedColumn
                         THEN formatLastPlayed(track.lastTimePlayed)
                         ELSE column(track, col))
            ELSE IF role = "BackgroundRole"
                    /\ (trimmed(track.groupDesc) = << "0" >> \/ trimmed(track.groupDesc) = << >>)
            THEN variant("QColor", PaleYellow)
            ELSE IF role = "UserRole" /\ col = GroupDescColumn
            THEN variant("int", toInt(track.groupDesc).value)
            ELSE IF role = "UserRole" /\ col = LastTimePlayedColumn
            THEN variant("double", toDouble(track.lastTimePlayed).value)
            ELSE invalidVariant

\* LibraryModel::data(index, role)
data(row, col, role) == dataOver(m_tracks, row, col, role)

\* QVariant::toInt(): the int of an int, 0 of a variant that is not valid
variantToInt(v) == IF v.type = "int" THEN v.value ELSE 0

\* LibraryFilterProxyModel::filterAcceptsRow(sourceRow, sourceParent) over
\* the records tracks; textAccepts: what the text filter of
\* QSortFilterProxyModel says of the row
filterAcceptsRowOver(tracks, sourceRow, textAccepts) ==
    LET stars == variantToInt(dataOver(tracks, sourceRow, GroupDescColumn, "UserRole"))
    IN IF (m_excludeUnrated \/ m_excludeRated)
          /\ ((m_excludeUnrated /\ stars = 0) \/ (m_excludeRated /\ stars > 0))
       THEN FALSE
       ELSE textAccepts

\* LibraryFilterProxyModel::filterAcceptsRow(sourceRow, sourceParent)
filterAcceptsRow(sourceRow, textAccepts) ==
    filterAcceptsRowOver(m_tracks, sourceRow, textAccepts)

\* trackItem that takes the stars from the Rating field
trackItem_starsFromRating(record) ==
    [trackNumber |-> extractTrackNumber(record.songPath),
     text0 |-> extractTrackNumber(record.songPath) \o << " " >> \o record.songTitle,
     text1 |-> starsToDisplay(toInt(record.rating).value),
     text2 |-> sqlTimeToDate(toDouble(record.lastTimePlayed).value)]

\* the item of the tree for one record of the album
trackItem(record) ==
    [trackNumber |-> extractTrackNumber(record.songPath),
     text0 |-> extractTrackNumber(record.songPath) \o << " " >> \o record.songTitle,
     text1 |-> starsToDisplay(toInt(record.groupDesc).value),
     text2 |-> sqlTimeToDate(toDouble(record.lastTimePlayed).value)]

\* the rows of tracks whose IDAlbum is albumId, in the order of the rows
albumRows(tracks, albumId) ==
    { row \in 1..Len(tracks) :
        toInt(tracks[row].idAlbum).ok /\ toInt(tracks[row].idAlbum).value = albumId }

\* the lists std::sort may leave: the items of the album by ascending track
\* number, items of one track number in any order
populatedOver(tracks, albumId) ==
    LET rows == albumRows(tracks, albumId)
        n == Cardinality(rows)
        orders == { o \in [1..n -> rows] :
                      /\ \A i, j \in 1..n : i # j => o[i] # o[j]
                      /\ \A i \in 1..(n - 1) :
                            ~textLess(extractTrackNumber(tracks[o[i + 1]].songPath),
                                      extractTrackNumber(tracks[o[i]].songPath)) }
    IN { [i \in 1..n |-> trackItem(tracks[o[i]])] : o \in orders }

\* AlbumWindow::populate(model, albumId, ...): the track list
populate(albumId) == m_trackList' \in populatedOver(m_tracks, albumId)

\* a view asks the model for the data of a cell
Data ==
    /\ \E row \in 0..MaxRow, col \in { SongLengthColumn, GroupDescColumn, LastTimePlayedColumn },
          role \in { "DisplayRole", "BackgroundRole", "UserRole" } :
          lastCall' = [op |-> "data", row |-> row, col |-> col, role |-> role,
                       ret |-> data(row, col, role)]
    /\ emitted' = << >>
    /\ UNCHANGED << fileVars, otherThanLibrary >>

\* the proxy asks whether a row of the model is shown
FilterAcceptsRow ==
    /\ \E sourceRow \in 0..(rowCount - 1), textAccepts \in BOOLEAN :
          lastCall' = [op |-> "filterAcceptsRow", row |-> sourceRow,
                       textAccepts |-> textAccepts,
                       ret |-> filterAcceptsRow(sourceRow, textAccepts)]
    /\ emitted' = << >>
    /\ UNCHANGED << fileVars, otherThanLibrary >>

\* onExcludeUnratedToggled without the dimming of the other check box
onExcludeUnratedToggled_leavesRatedEnabled ==
    /\ m_excludeUnratedCheckbox.enabled
    /\ LET checked == ~m_excludeUnratedCheckbox.checked
       IN  /\ m_excludeUnratedCheckbox' =
                 [m_excludeUnratedCheckbox EXCEPT !.checked = checked]
           /\ m_excludeUnrated' = checked
           /\ UNCHANGED m_excludeRatedCheckbox
    /\ lastCall' = noCall("onExcludeUnratedToggled")
    /\ emitted' = << >>
    /\ UNCHANGED << fileVars, runnerVars, cliVars, confVars, guiVars, m_excludeRated, m_trackList >>

\* the user clicks "Exclude Unrated", which takes clicks while it is enabled:
\* the box flips and LibraryView::onExcludeUnratedToggled(checked) runs
onExcludeUnratedToggled ==
    /\ m_excludeUnratedCheckbox.enabled
    /\ LET checked == ~m_excludeUnratedCheckbox.checked
       IN  /\ m_excludeUnratedCheckbox' =
                 [m_excludeUnratedCheckbox EXCEPT !.checked = checked]
           /\ m_excludeUnrated' = checked
           /\ m_excludeRatedCheckbox' =
                 [m_excludeRatedCheckbox EXCEPT !.enabled = ~checked]
    /\ lastCall' = noCall("onExcludeUnratedToggled")
    /\ emitted' = << >>
    /\ UNCHANGED << fileVars, runnerVars, cliVars, confVars, guiVars, m_excludeRated, m_trackList >>

\* the user clicks "Exclude Rated", which takes clicks while it is enabled:
\* the box flips and LibraryView::onExcludeRatedToggled(checked) runs
onExcludeRatedToggled ==
    /\ m_excludeRatedCheckbox.enabled
    /\ LET checked == ~m_excludeRatedCheckbox.checked
       IN  /\ m_excludeRatedCheckbox' =
                 [m_excludeRatedCheckbox EXCEPT !.checked = checked]
           /\ m_excludeRated' = checked
           /\ m_excludeUnratedCheckbox' =
                 [m_excludeUnratedCheckbox EXCEPT !.enabled = ~checked]
    /\ lastCall' = noCall("onExcludeRatedToggled")
    /\ emitted' = << >>
    /\ UNCHANGED << fileVars, runnerVars, cliVars, confVars, guiVars, m_excludeUnrated, m_trackList >>

\* the album ids MainWindow::showAlbumWindow finds
AlbumIds == { 7, 8 }

\* MainWindow::showAlbumWindow populates the album window
Populate ==
    /\ \E albumId \in AlbumIds :
          /\ populate(albumId)
          /\ lastCall' = [op |-> "populate", albumId |-> albumId]
    /\ emitted' = << >>
    /\ UNCHANGED << fileVars, runnerVars, cliVars, confVars, guiVars, m_excludeUnrated, m_excludeRated,
                    boxVars >>

(***************************************************************************)
(* MaintenancePanel: the slot connected to ScriptRunner::scriptFinished.   *)
(***************************************************************************)
\* the operation ids of the panel that end with "-preview"
PreviewIds == { "build-preview", "tagclean-preview", "tagrebuild-preview" }

\* operationId.endsWith("-preview")
endsWithPreview(operationId) == operationId \in PreviewIds

\* MaintenancePanel::logStatus(message): the line appended to the log
logStatus(message) == << "[hh:mm:ss] " >> \o message

\* MaintenancePanel::onScriptFinished(operationId, exitCode, stderrContent):
\* the lines it appends to the log
onScriptFinished(operationId, exitCode, stderrContent) ==
    IF exitCode = 0
    THEN << logStatus(<< "[", operationId, "] Completed successfully." >>) >>
    ELSE IF exitCode = 3
    THEN << logStatus(<< "[", operationId, "] Completed - some operations queued" >>) >>
    ELSE IF exitCode = 1 /\ endsWithPreview(operationId)
    THEN << logStatus(<< "[", operationId, "] Preview complete." >>) >>
    ELSE IF exitCode = -1
    THEN << logStatus(<< "[", operationId, "] " >> \o stderrContent) >>
    ELSE IF exitCode = -2
    THEN << logStatus(<< "[", operationId, "] Process crashed." >>) >>
    ELSE << logStatus(<< "[", operationId, "] Exited with code " >> \o number(exitCode)
                      \o << "." >>) >>
         \o (IF stderrContent # << >>
             THEN << logStatus(<< "stderr: " >> \o stderrContent) >>
             ELSE << >>)

RECURSIVE heard(_)
\* the log lines of the panel for the scriptFinished signals among sigs
heard(sigs) ==
    IF sigs = << >> THEN << >>
    ELSE (IF Head(sigs).sig = "scriptFinished"
          THEN onScriptFinished(Head(sigs).opId, Head(sigs).code, Head(sigs).text)
          ELSE << >>) \o heard(Tail(sigs))

\* emit scriptFinished(operationId, exitCode, stderrContent)
scriptFinished(opId, code, text) ==
    [sig |-> "scriptFinished", opId |-> opId, code |-> code, text |-> text]

\* emit rateSuccess / rateDeferred (filePath, stars)
rateSignal(sig, filePath, stars) == [sig |-> sig, filePath |-> filePath, stars |-> stars]

\* emit rateError(filePath, stars, message)
rateError(filePath, stars, message) ==
    [sig |-> "rateError", filePath |-> filePath, stars |-> stars, message |-> message]

\* ScriptRunner::isRunning()
isRunning ==
    m_scriptProcess # 0 /\ procs[m_scriptProcess].state # "NotRunning"

\* runScript without its guard: a call made while an operation runs replaces it
runScript_noGuard(opId, found) ==
    /\ calls' = calls + 1
    /\ lastCall' = [op |-> "runScript", opId |-> opId, found |-> found,
                    running |-> isRunning,
                    pre |-> << m_scriptProcess, m_currentOpId, procs >>]
    /\ IF FALSE
       THEN /\ emitted' = << scriptFinished(opId, NotStartedCode, << "another is running" >>) >>
            /\ rejected' = rejected \cup {calls + 1}
            /\ UNCHANGED << m_scriptProcess, m_currentOpId, procs >>
       ELSE IF ~found
       THEN /\ emitted' = << scriptFinished(opId, NotStartedCode, << "not found" >>) >>
            /\ UNCHANGED << m_scriptProcess, m_currentOpId, procs, rejected >>
       ELSE /\ m_currentOpId' = opId
            /\ LET old == IF m_scriptProcess # 0
                          THEN [procs EXCEPT ![m_scriptProcess].deleted = TRUE]
                          ELSE procs
               IN procs' = Append(old, [opId |-> opId, call |-> calls + 1,
                                        state |-> "Starting", deleted |-> FALSE,
                                        term |-> NotAsked, killed |-> FALSE,
                                        killedAt |-> NotAsked, killedFor |-> 0])
            /\ m_scriptProcess' = Len(procs) + 1
            /\ emitted' = << >>
            /\ UNCHANGED rejected

\* ScriptRunner::runScript(operationId, scriptName, args); found: whether
\* resolveScript(scriptName) finds the script
runScript(opId, found) ==
    /\ calls' = calls + 1
    /\ lastCall' = [op |-> "runScript", opId |-> opId, found |-> found,
                    running |-> isRunning,
                    pre |-> << m_scriptProcess, m_currentOpId, procs >>]
    /\ IF isRunning
       THEN /\ emitted' = << scriptFinished(opId, NotStartedCode, << "another is running" >>) >>
            /\ rejected' = rejected \cup {calls + 1}
            /\ UNCHANGED << m_scriptProcess, m_currentOpId, procs >>
       ELSE IF ~found
       THEN /\ emitted' = << scriptFinished(opId, NotStartedCode, << "not found" >>) >>
            /\ UNCHANGED << m_scriptProcess, m_currentOpId, procs, rejected >>
       ELSE /\ m_currentOpId' = opId
            /\ LET old == IF m_scriptProcess # 0
                          THEN [procs EXCEPT ![m_scriptProcess].deleted = TRUE]
                          ELSE procs
               IN procs' = Append(old, [opId |-> opId, call |-> calls + 1,
                                        state |-> "Starting", deleted |-> FALSE,
                                        term |-> NotAsked, killed |-> FALSE,
                                        killedAt |-> NotAsked, killedFor |-> 0])
            /\ m_scriptProcess' = Len(procs) + 1
            /\ emitted' = << >>
            /\ UNCHANGED rejected

\* the number of signals named sig among sigs
countIn(sigs, sig) == Cardinality({ i \in 1..Len(sigs) : sigs[i].sig = sig })

\* scriptCalls once the signals sigs are put down to the runScript call c
noted(c, sigs) ==
    [i \in 1..Len(scriptCalls) |->
        IF scriptCalls[i].call # c THEN scriptCalls[i]
        ELSE [scriptCalls[i] EXCEPT
                 !.late = @ \/ (scriptCalls[i].finished > 0
                                /\ countIn(sigs, "scriptOutput") > 0),
                 !.outputs = @ + countIn(sigs, "scriptOutput"),
                 !.finished = @ + countIn(sigs, "scriptFinished")]]

\* the slots of the maintenance panel run inside the emit
panelHears ==
    /\ m_logOutput' = heard(emitted')
    /\ buttonsEnabled' = (countIn(emitted', "scriptFinished") > 0 \/ buttonsEnabled)
    /\ UNCHANGED newTracksShot

\* runScript is called with one of the operation ids, the script being found
\* or not as founds says
runScriptWith(opIds, founds) ==
    /\ calls < MaxCalls
    /\ \E opId \in opIds, found \in founds : runScript(opId, found)
    /\ scriptCalls' = Append(scriptCalls,
                             [call |-> calls + 1, opId |-> lastCall'.opId,
                              finished |-> countIn(emitted', "scriptFinished"),
                              outputs |-> 0,
                              late |-> FALSE])
    /\ panelHears
    /\ UNCHANGED << otherThanRunner, rateVars, killShots >>

\* the maintenance panel launches an operation
RunScript == runScriptWith(OpIds, BOOLEAN)

\* the maintenance panel launches the build, its script installed
LaunchBuild == runScriptWith({ "build" }, { TRUE })

\* a launcher of the panel: setButtonsEnabled(false), then runScript, whose
\* scriptFinished, when it is emitted inside the call, enables them again
launch(opId, found) ==
    /\ runScript(opId, found)
    /\ scriptCalls' = Append(scriptCalls,
                             [call |-> calls + 1, opId |-> opId,
                              finished |-> countIn(emitted', "scriptFinished"),
                              outputs |-> 0,
                              late |-> FALSE])
    /\ m_logOutput' = heard(emitted')
    /\ buttonsEnabled' = (countIn(emitted', "scriptFinished") > 0)

\* the user clicks one of the enabled launch buttons:
\* MaintenancePanel::launchBuild, launchTagClean, ...
PanelLaunch ==
    /\ buttonsEnabled
    /\ calls < MaxCalls
    /\ \E opId \in OpIds, found \in BOOLEAN : launch(opId, found)
    /\ UNCHANGED << otherThanRunner, rateVars, killShots, newTracksShot >>

\* MaintenancePanel::launchNewTracks(); artist: the trimmed artist field is
\* not empty; kid3: closeKid3IfRunning() found kid3 and closed it
launchNewTracks(artist, kid3, found) ==
    IF ~artist
    THEN /\ lastCall' = noCall("launchNewTracks")
         /\ emitted' = << >>
         /\ UNCHANGED << genericVars, calls, panelVars >>
    ELSE IF kid3
    THEN /\ buttonsEnabled' = FALSE
         /\ newTracksShot' = TRUE
         /\ lastCall' = noCall("launchNewTracks")
         /\ emitted' = << >>
         /\ UNCHANGED << genericVars, calls, killShots, m_logOutput, scriptCalls >>
    ELSE /\ launch("newtracks", found)
         /\ UNCHANGED << killShots, newTracksShot >>

\* the user clicks the enabled button of the new tracks group
LaunchNewTracks ==
    /\ buttonsEnabled
    /\ calls < MaxCalls
    /\ \E artist \in BOOLEAN, kid3 \in BOOLEAN, found \in BOOLEAN :
          launchNewTracks(artist, kid3, found)
    /\ UNCHANGED << otherThanRunner, rateVars >>

\* the lambda of launchNewTracks runs, 800 ms after kid3 was closed
NewTracksShot ==
    /\ newTracksShot
    /\ calls < MaxCalls
    /\ newTracksShot' = FALSE
    /\ \E found \in BOOLEAN :
          /\ runScript("newtracks", found)
          /\ scriptCalls' = Append(scriptCalls,
                                   [call |-> calls + 1, opId |-> "newtracks",
                                    finished |-> countIn(emitted', "scriptFinished"),
                                    outputs |-> 0,
                                    late |-> FALSE])
    /\ m_logOutput' = heard(emitted')
    /\ buttonsEnabled' = (countIn(emitted', "scriptFinished") > 0 \/ buttonsEnabled)
    /\ UNCHANGED << otherThanRunner, rateVars, killShots >>

\* QProcess: bash has started
ProcessStarted ==
    /\ m_scriptProcess # 0
    /\ procs[m_scriptProcess].state = "Starting"
    /\ procs' = [procs EXCEPT ![m_scriptProcess].state = "Running"]
    /\ emitted' = << >>
    /\ lastCall' = noCall("ProcessStarted")
    /\ panelHears
    /\ UNCHANGED << otherThanRunner, m_scriptProcess, m_currentOpId, rejected, rateVars,
                    calls, killShots, scriptCalls >>

\* QProcess: bash could not be started (errorOccurred, no finished signal)
ProcessFailedToStart ==
    /\ m_scriptProcess # 0
    /\ procs[m_scriptProcess].state = "Starting"
    /\ procs' = [procs EXCEPT ![m_scriptProcess].state = "NotRunning"]
    /\ emitted' = << >>
    /\ lastCall' = noCall("ProcessFailedToStart")
    /\ panelHears
    /\ UNCHANGED << otherThanRunner, m_scriptProcess, m_currentOpId, rejected, rateVars,
                    calls, killShots, scriptCalls >>

\* emit scriptOutput(operationId, line)
scriptOutput(opId, line) == [sig |-> "scriptOutput", opId |-> opId, line |-> line]

\* the signal for one piece of standard output: trimmed, dropped when empty
outputOf(raw) ==
    LET line == trimmed(raw)
    IN IF line # << >> THEN << scriptOutput(m_currentOpId, line) >> ELSE << >>

\* lines a script writes to its standard output at a time
MaxOutputs == 1
\* what a script writes to its standard output
OutputTexts == { << " ", "\n" >>, << "o", "k", "\n" >> }
\* what is left on standard output when the script ends
RemainderTexts == { << >>, << "r", " " >> }

\* ScriptRunner::onScriptReadyRead(), one line being there to read
onScriptReadyRead ==
    /\ m_scriptProcess # 0
    /\ procs[m_scriptProcess].state = "Running"
    /\ \E i \in 1..Len(scriptCalls) :
          /\ scriptCalls[i].call = procs[m_scriptProcess].call
          /\ scriptCalls[i].outputs < MaxOutputs
    /\ \E raw \in OutputTexts : emitted' = outputOf(raw)
    /\ scriptCalls' = noted(procs[m_scriptProcess].call, emitted')
    /\ lastCall' = noCall("onScriptReadyRead")
    /\ panelHears
    /\ UNCHANGED << otherThanRunner, genericVars, rateVars, calls, killShots >>

\* ScriptRunner::onScriptProcessFinished(exitCode, status), the process being
\* NotRunning when QProcess emits finished; crashed: status == CrashExit,
\* remainder: the standard output not yet read
onScriptProcessFinished(exitCode, crashed, stderrText, remainder) ==
    /\ m_scriptProcess # 0
    /\ procs[m_scriptProcess].state = "Running"
    /\ emitted' = (IF remainder # << >> THEN outputOf(remainder) ELSE << >>)
                  \o << scriptFinished(m_currentOpId,
                                       IF crashed THEN CrashCode ELSE exitCode,
                                       trimmed(stderrText)) >>
    /\ procs' = [procs EXCEPT ![m_scriptProcess].state = "NotRunning",
                              ![m_scriptProcess].deleted = TRUE]
    /\ m_scriptProcess' = 0
    /\ lastCall' = [op |-> "onScriptProcessFinished", exitCode |-> exitCode,
                    crashed |-> crashed, proc |-> m_scriptProcess]
    /\ UNCHANGED << m_currentOpId, rejected, calls >>

\* the generic script ends in one of the given ways
scriptEndsWith(exitCodes, crashes, texts, remainders) ==
    /\ \E exitCode \in exitCodes, crashed \in crashes, text \in texts,
          remainder \in remainders :
          onScriptProcessFinished(exitCode, crashed, text, remainder)
    /\ scriptCalls' = noted(procs[m_scriptProcess].call, emitted')
    /\ panelHears
    /\ UNCHANGED << otherThanRunner, rateVars, killShots >>

\* the generic script ends
ScriptEnds == scriptEndsWith(ExitCodes, BOOLEAN, StderrTexts, RemainderTexts)

\* the generic script exits or is ended by a signal, its output all read
ScriptExits == scriptEndsWith({ 0 }, BOOLEAN, { << >> }, { << >> })

\* scriptrunner.cpp:204  the grace period between terminate() and kill()
KillDelay == 3000
\* the step of the clock of the runner
KillTick == KillDelay \div 2
\* pending kill timers at a time
MaxCancels == 2

\* ScriptRunner::cancelScript(); the lambda captures this, proc is kept to
\* tell which process the call asked to terminate
cancelScript ==
    /\ Len(killShots) < MaxCancels
    /\ lastCall' = [op |-> "cancelScript", running |-> isRunning, proc |-> m_scriptProcess]
    /\ emitted' = << >>
    /\ IF ~isRunning
       THEN UNCHANGED << procs, killShots >>
       ELSE /\ procs' = [procs EXCEPT ![m_scriptProcess].term =
                                          IF @ = NotAsked THEN 0 ELSE @]
            /\ killShots' = Append(killShots, [left |-> KillDelay, proc |-> m_scriptProcess])
    /\ panelHears
    /\ UNCHANGED << otherThanRunner, m_scriptProcess, m_currentOpId, rejected, rateVars,
                    calls, scriptCalls >>

\* the user clicks Cancel, which is there while the launch buttons are disabled
CancelClicked == ~buttonsEnabled /\ cancelScript

\* the lambda of cancelScript runs, 3000 ms after it was scheduled
killShot ==
    /\ killShots # << >>
    /\ Head(killShots).left = 0
    /\ killShots' = Tail(killShots)
    /\ lastCall' = [op |-> "killShot", running |-> isRunning, proc |-> m_scriptProcess]
    /\ emitted' = << >>
    /\ IF isRunning
       THEN procs' = [procs EXCEPT ![m_scriptProcess].killed = TRUE,
                                   ![m_scriptProcess].killedAt = procs[m_scriptProcess].term,
                                   ![m_scriptProcess].killedFor = Head(killShots).proc]
       ELSE UNCHANGED procs
    /\ panelHears
    /\ UNCHANGED << otherThanRunner, m_scriptProcess, m_currentOpId, rejected, rateVars,
                    calls, scriptCalls >>

\* KillTick ms pass; a due timer runs before more time passes
TickRunner ==
    /\ killShots # << >>
    /\ Head(killShots).left > 0
    /\ killShots' = [i \in 1..Len(killShots) |->
                        [killShots[i] EXCEPT !.left = IF @ > KillTick THEN @ - KillTick ELSE 0]]
    /\ procs' = [i \in 1..Len(procs) |->
                    IF procs[i].term = NotAsked \/ procs[i].state = "NotRunning"
                    THEN procs[i]
                    ELSE [procs[i] EXCEPT !.term = IF @ + KillTick < KillDelay
                                                   THEN @ + KillTick ELSE KillDelay]]
    /\ emitted' = << >>
    /\ lastCall' = noCall("TickRunner")
    /\ panelHears
    /\ UNCHANGED << otherThanRunner, m_scriptProcess, m_currentOpId, rejected, rateVars,
                    calls, scriptCalls >>

(***************************************************************************)
(* ScriptRunner: rating.                                                   *)
(***************************************************************************)
\* ScriptRunner::rate(filePath, stars); found: whether resolveScript finds
\* musiclib_rate.sh
rate(filePath, stars, found) ==
    /\ calls' = calls + 1
    /\ lastCall' = [op |-> "rate", filePath |-> filePath, stars |-> stars, found |-> found]
    /\ IF ~found
       THEN /\ emitted' = << rateError(filePath, stars, << "musiclib_rate.sh not found" >>) >>
            /\ UNCHANGED rateVars
       ELSE /\ m_pendingFilePath' = filePath
            /\ m_pendingStars' = stars
            /\ rateProcs' = rateProcs \cup
                  {[call |-> calls + 1, filePath |-> filePath, stars |-> stars]}
            /\ emitted' = << >>

\* a view asks for a rating
Rate ==
    /\ calls < MaxCalls
    /\ \E filePath \in FilePaths, stars \in Stars, found \in BOOLEAN :
          rate(filePath, stars, found)
    /\ panelHears
    /\ UNCHANGED << otherThanRunner, genericVars, killShots, scriptCalls >>

\* onRateProcessFinished without case 3: the deferred code is one more error
onRateProcessFinished_noDeferredCase(p, exitCode, stderrText) ==
    /\ rateProcs' = rateProcs \ {p}
    /\ lastCall' = [op |-> "onRateProcessFinished", proc |-> p,
                    exitCode |-> exitCode, stderrText |-> stderrText]
    /\ emitted' =
          IF exitCode = 0
          THEN << rateSignal("rateSuccess", m_pendingFilePath, m_pendingStars) >>
          ELSE IF FALSE
          THEN << rateSignal("rateDeferred", m_pendingFilePath, m_pendingStars) >>
          ELSE LET errMsg == trimmed(stderrText)
               IN << rateError(m_pendingFilePath, m_pendingStars,
                               IF errMsg = << >> THEN exitedWithCode(exitCode)
                               ELSE errMsg) >>
    /\ UNCHANGED << m_pendingFilePath, m_pendingStars, calls >>

\* ScriptRunner::onRateProcessFinished(exitCode), sender() being process p
\* with stderrText on its standard error
onRateProcessFinished(p, exitCode, stderrText) ==
    /\ rateProcs' = rateProcs \ {p}
    /\ lastCall' = [op |-> "onRateProcessFinished", proc |-> p,
                    exitCode |-> exitCode, stderrText |-> stderrText]
    /\ emitted' =
          IF exitCode = 0
          THEN << rateSignal("rateSuccess", m_pendingFilePath, m_pendingStars) >>
          ELSE IF exitCode = DeferredCode
          THEN << rateSignal("rateDeferred", m_pendingFilePath, m_pendingStars) >>
          ELSE LET errMsg == trimmed(stderrText)
               IN << rateError(m_pendingFilePath, m_pendingStars,
                               IF errMsg = << >> THEN exitedWithCode(exitCode)
                               ELSE errMsg) >>
    /\ UNCHANGED << m_pendingFilePath, m_pendingStars, calls >>

\* a rate process ends
RateEnds ==
    /\ \E p \in rateProcs, exitCode \in ExitCodes, text \in StderrTexts :
          onRateProcessFinished(p, exitCode, text)
    /\ panelHears
    /\ UNCHANGED << otherThanRunner, genericVars, killShots, scriptCalls >>

(***************************************************************************)
(* MainWindow: its own watcher on the database file.                       *)
(***************************************************************************)
\* LibraryView::loadDatabase(path) as far as the panel's record set goes
loadDatabase(path) == panelTracks' = parseFile(path, panelTracks).tracks

\* the watcher delivers fileChanged and MainWindow::onDatabaseChanged runs:
\* QTimer::singleShot(500, this, [this]() { ... })
onDatabaseChanged ==
    /\ m_fileWatcher.events # << >>
    /\ m_fileWatcher' = takeEvent(m_fileWatcher)
    /\ shots' = Append(shots, ShotDelay)
    /\ emitted' = << >>
    /\ lastCall' = noCall("onDatabaseChanged")
    /\ UNCHANGED << dbFile, libVars, panelTracks, histVars, written, otherThanLibrary >>

\* the lambda of onDatabaseChanged runs, 500 ms after it was scheduled
databaseChangedShot ==
    /\ shots # << >>
    /\ Head(shots) = 0
    /\ shots' = Tail(shots)
    /\ loadFromFile(DbPath)
    /\ loadDatabase(DbPath)
    /\ m_fileWatcher' = IF DbPath \notin m_fileWatcher.files
                        THEN addPath(m_fileWatcher, DbPath)
                        ELSE m_fileWatcher
    /\ UNCHANGED << dbFile, m_debounceTimer, handled, sinceNotif, bursts, reloads,
                    reloadGaps, boundary, notified, clientLoads, written, otherThanLibrary >>

\* MainWindow::onDatabasePathChanged(): the settings dialog saved the paths
onDatabasePathChanged ==
    /\ clientLoads < MaxLoads
    /\ clientLoads' = clientLoads + 1
    /\ loadFromFile(DbPath)
    /\ loadDatabase(DbPath)
    /\ m_fileWatcher' =
          LET cleared == IF m_fileWatcher.files # {} THEN removePaths(m_fileWatcher)
                         ELSE m_fileWatcher
          IN IF fileExists(DbPath) THEN addPath(cleared, DbPath) ELSE cleared
    /\ UNCHANGED << dbFile, m_debounceTimer, shots, handled, sinceNotif, bursts, reloads,
                    reloadGaps, boundary, notified, written, otherThanLibrary >>

(***************************************************************************)
(* Files put before the parser.                                            *)
(***************************************************************************)
Letters == << "a", "b", "c", "d", "e", "f", "g", "h", "i", "j", "k", "l", "m",
              "n", "o" >>

\* k one-letter fields: a, b, c, ...
letterFields(k) == [i \in 1..k |-> << Letters[i] >>]

RECURSIVE join(_, _)
\* the fields of one record written as a line: f1 sep f2 sep ... fn
join(fields, sep) ==
    IF Len(fields) = 0 THEN << >>
    ELSE IF Len(fields) = 1 THEN fields[1]
    ELSE fields[1] \o << sep >> \o join(Tail(fields), sep)

\* a line whose fields are its text cut at the carets
row(fields) == [line |-> join(fields, DSV_DELIMITER), fields |-> fields]

\* the lines files are made of, each with the fields a reader of the trimmed
\* line finds in it (none in a blank line)
LinePool ==
    { [line |-> << >>, fields |-> << >>],
      [line |-> << " ", "\t" >>, fields |-> << >>],
      row(<< << "h" >> >>),
      row(letterFields(3)),
      [line |-> << " ", "a", "^", " ", "b", " " >>,
       fields |-> << << "a" >>, << " ", "b" >> >>],
      row(<< << >>, << >> >>),
      row(letterFields(COUNT - 1)),
      row(letterFields(COUNT)),
      row(letterFields(COUNT + 1)) }

\* the sequences of at most n members of S
seqsUpTo(S, n) == UNION { [1..k -> S] : k \in 0..n }

RECURSIVE fileOf(_)
\* the lines as one text, each ended by a line break
fileOf(lines) ==
    IF lines = << >> THEN << >>
    ELSE Head(lines) \o << "\n" >> \o fileOf(Tail(lines))

\* records of COUNT fields that a writer of the format may be given
RecordPool ==
    { letterFields(COUNT),
      [i \in 1..COUNT |-> << >>],
      [letterFields(COUNT) EXCEPT ![1] = << " ", "a" >>],
      [letterFields(COUNT) EXCEPT ![COUNT] = << "m", " " >>],
      [letterFields(COUNT) EXCEPT ![1] = << "a", " " >>, ![2] = << "b", " ", "b" >>,
                                  ![COUNT] = << " ", "m" >>] }

\* header lines the writer may be given
HeaderPool == { << "I", "D", "^", "A" >>, << " " >> }

\* the flat-file format: the header line, then one line per record, its
\* fields separated by carets
writeFile(header, records) ==
    fileOf(<< header >> \o [i \in 1..Len(records) |-> join(records[i], DSV_DELIMITER)])

\* what was put in the file: lines of the pool, or a header and records
input(roundTrip, lines, header, records, content) ==
    [roundTrip |-> roundTrip, lines |-> lines, header |-> header,
     records |-> records, content |-> content]

NotWritten == input(FALSE, << >>, << >>, << >>, << >>)

LineInputs ==
    { input(FALSE, ls, << >>, << >>, fileOf([i \in 1..Len(ls) |-> ls[i].line])) :
        ls \in seqsUpTo(LinePool, MaxLines) }

RoundTripInputs ==
    { input(TRUE, << >>, hr[1], hr[2], writeFile(hr[1], hr[2])) :
        hr \in HeaderPool \X seqsUpTo(RecordPool, MaxRecords) }

(***************************************************************************)
(* Initial states and specifications.                                      *)
(***************************************************************************)
NoFile == [exists |-> FALSE, content |-> << >>]

\* LibraryModel::LibraryModel: no records, no path, nothing watched, the
\* single-shot timer stopped
InitLibraryModel ==
    /\ m_tracks = << >>
    /\ m_dsvPath = ""
    /\ m_watcher = NoWatcher
    /\ m_debounceTimer = [active |-> FALSE, left |-> 0]

\* ScriptRunner::ScriptRunner and the member initialisers of scriptrunner.h
InitScriptRunner ==
    /\ m_scriptProcess = 0
    /\ m_currentOpId = ""
    /\ procs = << >>
    /\ rejected = {}
    /\ calls = 0
    /\ m_pendingFilePath = ""
    /\ m_pendingStars = 0
    /\ rateProcs = {}
    /\ killShots = << >>
    /\ m_logOutput = << >>
    /\ scriptCalls = << >>
    /\ buttonsEnabled = TRUE
    /\ newTracksShot = FALSE

InitHistory ==
    /\ handled = 0
    /\ sinceNotif = LongAgo
    /\ bursts = 0
    /\ reloads = 0
    /\ reloadGaps = {}
    /\ boundary = FALSE
    /\ notified = 0
    /\ parses = 0
    /\ clientLoads = 0
    /\ emitted = << >>
    /\ lastCall = noCall("Init")

\* no command line
NoCli ==
    /\ argv = << >>
    /\ existing = {}

\* ConfWriter::ConfWriter: nothing loaded
InitConfWriter ==
    /\ m_filePath = ""
    /\ m_rawLines = << >>
    /\ m_values = << >>
    /\ confLoaded = << >>
    /\ confCalls = 0

\* LibraryView::LibraryView: unrated tracks excluded; an AlbumWindow not
\* yet populated
InitViews ==
    /\ m_excludeUnrated = TRUE
    /\ m_excludeRated = FALSE
    /\ m_trackList = << >>
    /\ m_excludeUnratedCheckbox = [checked |-> TRUE, enabled |-> TRUE]
    /\ m_excludeRatedCheckbox = [checked |-> FALSE, enabled |-> FALSE]

\* no musiclib.conf, nothing loaded from it
NoConf ==
    /\ confFile = NoFile
    /\ InitConfWriter

\* systemtrayicon.h:154  no rating of this track was changed from the popup yet
NoRatingBefore == -1

\* no onRateStar since the track became current
NoSession == [track |-> "", first |-> NoRatingBefore, sinceUndo |-> NoRatingBefore]

\* SystemTrayIcon::SystemTrayIcon under a MainWindow that has not refreshed yet
InitTray ==
    /\ m_nowPlaying = [songPath |-> "", ratingGroup |-> EmptyText, isPlaying |-> FALSE]
    /\ m_current = [filePath |-> "", rating |-> 0, isPlaying |-> FALSE]
    /\ m_sessionFilePath = ""
    /\ m_sessionRatingBefore = NoRatingBefore
    /\ session = NoSession
    /\ trayCall = [op |-> "none", session |-> NoSession]

\* the other windows as they are constructed
\* MobilePanel::MobilePanel: no process yet, nothing in progress
InitMobile ==
    /\ m_operationInProgress = FALSE
    /\ m_haltIfNewerCheck = FALSE
    /\ mobileProcs = [p \in { "checkUpdate", "upload", "operation" } |-> "NotRunning"]
    /\ operationSlot = "none"
    /\ progressMaximum = 0
    /\ pendingCheck = FALSE
    /\ lastTotal = 0
    /\ linesRead = 0
    /\ mobileOps = 0

NoGui ==
    /\ InitTray
    /\ InitMobile

NoTools ==
    /\ NoCli
    /\ NoConf
    /\ InitViews
    /\ NoGui

NoMainWindow ==
    /\ m_fileWatcher = NoWatcher
    /\ shots = << >>
    /\ panelTracks = << >>

\* a LibraryModel on its own, the database file in any state
Init ==
    /\ dbFile \in {NoFile} \cup { [exists |-> TRUE, content |-> c] : c \in DbContents }
    /\ written = NotWritten
    /\ InitLibraryModel
    /\ NoMainWindow
    /\ InitScriptRunner
    /\ NoTools
    /\ InitHistory

Next ==
    \/ ClientLoad
    \/ TrackAt
    \/ onFileChanged
    \/ reloadDebounced
    \/ Tick
    \/ WriteInPlace
    \/ ReplaceByRename
    \/ DeleteFile

Spec == Init /\ [][Next]_vars

\* a LibraryModel before a file made of pool lines, or written by the writer
InitParse ==
    /\ \E in \in LineInputs \cup RoundTripInputs :
          /\ written = in
          /\ dbFile = [exists |-> TRUE, content |-> in.content]
    /\ InitLibraryModel
    /\ NoMainWindow
    /\ InitScriptRunner
    /\ NoTools
    /\ InitHistory

NextParse == ClientLoad

SpecParse == InitParse /\ [][NextParse]_vars

\* a ScriptRunner on its own
InitRunner ==
    /\ dbFile = NoFile
    /\ written = NotWritten
    /\ InitLibraryModel
    /\ NoMainWindow
    /\ InitScriptRunner
    /\ NoTools
    /\ InitHistory

NextRunner ==
    \/ RunScript
    \/ ProcessStarted
    \/ ProcessFailedToStart
    \/ ScriptEnds
    \/ Rate
    \/ RateEnds

SpecRunner == InitRunner /\ [][NextRunner]_vars

\* a command line of musiclib-cli rate, some paths existing
InitCli ==
    /\ dbFile = NoFile
    /\ written = NotWritten
    /\ InitLibraryModel
    /\ NoMainWindow
    /\ InitScriptRunner
    /\ argv \in seqsUpTo(ArgWords, MaxArgs)
    /\ existing \in SUBSET PathWords
    /\ NoConf
    /\ InitViews
    /\ NoGui
    /\ InitHistory

NextCli == HandleRate

SpecCli == InitCli /\ [][NextCli]_vars

\* a ConfWriter before a musiclib.conf made of pool lines, or none
InitConf ==
    /\ dbFile = NoFile
    /\ written = NotWritten
    /\ InitLibraryModel
    /\ NoMainWindow
    /\ InitScriptRunner
    /\ NoCli
    /\ InitViews
    /\ NoGui
    /\ confFile \in {NoFile} \cup
          { [exists |-> TRUE, content |-> fileOf(ls)] : ls \in seqsUpTo(ConfLinePool, MaxConfLines) }
    /\ InitConfWriter
    /\ InitHistory

NextConf ==
    \/ ConfLoad
    \/ ConfSet
    \/ ConfSave

SpecConf == InitConf /\ [][NextConf]_vars

\* a record of the database: the fields of a track of album 7
BaseFields ==
    << << "1" >>, << >>, << "7" >>, << >>, << >>, << "t" >>,
       << "/", "0", "1", "x" >>, << >>, << "0" >>, << "3" >>, << >>, << "3" >>,
       << "0" >> >>

\* the field of column col (0-based) replaced
withField(fields, col, text) == [fields EXCEPT ![col + 1] = text]

\* texts of the SongLength field
LengthTexts ==
    { << "0" >>, << "-", "5" >>, << "a", "b", "c" >>, << >>,
      << "5", "9", "9", "9", "9" >>, << "6", "0", "0", "0", "0" >>,
      << " ", "7", "0", "0", "0" >>, << "1", "2", "5", "0", "0", "0" >>,
      << "3", "0", "0", "0", "0", "0", "0", "0", "0", "0" >>,
      << "2", "1", "4", "7", "4", "8", "3", "6", "4", "7" >> }

\* texts of the LastTimePlayed field
SerialTexts ==
    { << "0" >>, << "0", ".", "0" >>, << "-", "1" >>, << "x" >>, << >>,
      << "1", "0", "0", "0", ".", "5" >>, << "2", "5", "5", "6", "9" >>,
      << "4", "6", "0", "0", "0", ".", "2", "5" >>,
      << "9", "9", "9", "9", "9", "9", "9", "9", "9", "9", "9", "9", "9" >> }

\* texts of the Rating field and of the GroupDesc field
RatingTexts == { << "3" >>, << "0" >>, << "5" >> }
GroupDescTexts ==
    { << "3" >>, << "0" >>, << >>, << " ", "0" >>, << "x" >>, << "6" >>, << "-", "1" >>,
      << "5" >> }

\* records that differ from the base record in one respect
ViewFields ==
    { withField(BaseFields, SongLengthColumn, t) : t \in LengthTexts }
    \cup { withField(BaseFields, LastTimePlayedColumn, t) : t \in SerialTexts }
    \cup { withField(withField(BaseFields, 9, r), GroupDescColumn, g) :
             r \in RatingTexts, g \in GroupDescTexts }

\* records of two albums, with file names in and out of order
AlbumFields ==
    { withField(withField(withField(BaseFields, 2, a), 6, path), 9, r) :
        a \in { << "7" >>, << "8" >>, << "x" >> },
        path \in { << "/", "0", "1", "x" >>, << "/", "0", "2" >>, << "z" >> },
        r \in { << "0" >> } }

\* the database files of the views: a header and one record, or two records
\* of the albums
ViewFiles ==
    { fileOf(<< << "h" >>, join(f, DSV_DELIMITER) >>) : f \in ViewFields \cup AlbumFields }
    \cup { fileOf(<< << "h" >>, join(f, DSV_DELIMITER), join(g, DSV_DELIMITER) >>) :
             f \in AlbumFields, g \in AlbumFields }

\* a LibraryModel, a LibraryView and an AlbumWindow before a database file
InitView ==
    /\ dbFile \in { [exists |-> TRUE, content |-> c] : c \in ViewFiles }
    /\ written = NotWritten
    /\ InitLibraryModel
    /\ NoMainWindow
    /\ InitScriptRunner
    /\ NoTools
    /\ InitHistory

NextView ==
    \/ ClientLoad
    \/ Data
    \/ FilterAcceptsRow
    \/ onExcludeUnratedToggled
    \/ onExcludeRatedToggled
    \/ Populate

SpecView == InitView /\ [][NextView]_vars

\* a ScriptRunner running generic operations that write to standard output
NextGeneric ==
    \/ RunScript
    \/ ProcessStarted
    \/ ProcessFailedToStart
    \/ onScriptReadyRead
    \/ ScriptEnds

SpecGeneric == InitRunner /\ [][NextGeneric]_vars

\* a ScriptRunner whose operations are cancelled, time passing
NextCancel ==
    \/ LaunchBuild
    \/ ProcessStarted
    \/ ScriptExits
    \/ cancelScript
    \/ killShot
    \/ TickRunner

SpecCancel == InitRunner /\ [][NextCancel]_vars

\* a MaintenancePanel and its ScriptRunner, time passing
NextPanel ==
    \/ PanelLaunch
    \/ LaunchNewTracks
    \/ NewTracksShot
    \/ ProcessStarted
    \/ ProcessFailedToStart
    \/ ScriptExits
    \/ CancelClicked
    \/ killShot
    \/ TickRunner

SpecPanel == InitRunner /\ [][NextPanel]_vars

\* the application after MainWindow::MainWindow: m_libraryModel and the
\* library panel have loaded the database, setupFileWatcher has run
InitApp ==
    /\ dbFile \in {NoFile} \cup { [exists |-> TRUE, content |-> c] : c \in DbContents }
    /\ written = NotWritten
    /\ m_tracks = (IF dbFile.exists THEN parseContent(dbFile.content) ELSE << >>)
    /\ panelTracks = m_tracks
    /\ m_dsvPath = DbPath
    /\ m_watcher = IF dbFile.exists
                   THEN [files |-> {DbPath}, live |-> TRUE, events |-> << >>]
                   ELSE NoWatcher
    /\ m_fileWatcher = m_watcher
    /\ m_debounceTimer = [active |-> FALSE, left |-> 0]
    /\ shots = << >>
    /\ InitScriptRunner
    /\ NoTools
    /\ InitHistory

NextApp ==
    \/ onFileChanged
    \/ reloadDebounced
    \/ onDatabaseChanged
    \/ databaseChangedShot
    \/ onDatabasePathChanged
    \/ Tick
    \/ WriteInPlace
    \/ ReplaceByRename
    \/ DeleteFile

SpecApp == InitApp /\ [][NextApp]_vars

(***************************************************************************)
(* Claims about LibraryModel on its own (Spec).                            *)
(***************************************************************************)
\* the records of the two database contents, written out by hand
RecordsTwoRows ==
    << [EmptyTrackRecord EXCEPT !.id = << "a" >>, !.artist = << "b" >>],
       [EmptyTrackRecord EXCEPT !.id = << "c" >>] >>

recordsIn(content) == IF content = ContentTwoRows THEN RecordsTwoRows ELSE << >>

\* the last step was a parse: loadFromFile or a debounced reload
parsed == lastCall.op \in { "loadFromFile", "reloadDebounced" }

\* C1: a parse is all-or-nothing. After a parse that could not open the
\* file the model holds the records it held before, in the same order, and
\* loadError was emitted once with the path; after a parse that opened the
\* file it holds that file's records and nothing else; at no time does it
\* hold anything but the empty set or the whole record set of one file.
C1_ParseAllOrNothing ==
    /\ parsed =>
          IF dbFile.exists
          THEN m_tracks = recordsIn(dbFile.content) /\ emitted = << >>
          ELSE m_tracks = lastCall.pre /\ emitted = << loadError(m_dsvPath) >>
    /\ m_tracks \in { << >> } \cup { recordsIn(c) : c \in DbContents }

\* a debounced reload found the file gone and kept two records
C1_Witness ==
    /\ lastCall.op = "reloadDebounced"
    /\ ~dbFile.exists
    /\ Len(lastCall.pre) = 2
    /\ m_tracks = lastCall.pre
    /\ emitted = << loadError(DbPath) >>

\* the debounce timer is running
pending == IF m_debounceTimer.active THEN 1 ELSE 0

\* C2: the notifications of a burst (each less than one window after the one
\* before) cause one reload between them, and it runs exactly one window
\* after the last notification; a notification more than one window after
\* the one before starts a burst of its own. So the reloads done, and the
\* one still to come, are as many as the bursts. (A notification exactly one
\* window after the one before is in neither case of the claim.)
C2_OneReloadPerBurst ==
    /\ reloadGaps \subseteq { DebounceInterval }
    /\ ~boundary => reloads + pending = bursts

\* two notifications less than a window apart were answered by one reload
C2_Witness ==
    /\ lastCall.op = "reloadDebounced"
    /\ handled = 2
    /\ bursts = 1
    /\ reloads = 1
    /\ ~boundary

\* C8, as claimed: loadFromFile returns true exactly when the file was opened,
\* also when it holds no data row, and false exactly when it was not
C8_ReturnsWhetherOpened ==
    lastCall.op = "loadFromFile" => (lastCall.ret <=> dbFile.exists)

\* C9, as claimed: after onFileChanged has handled a notification the
\* database path is among the watcher's files again
C9_WatchReattached ==
    lastCall.op = "onFileChanged" => m_dsvPath \in m_watcher.files

(***************************************************************************)
(* Claims about the parser (SpecParse).                                    *)
(***************************************************************************)
Columns == 0..(COUNT - 1)

\* loadFromFile has read a file made of pool lines
loadedLines == lastCall.op = "loadFromFile" /\ ~written.roundTrip

\* loadFromFile has read a file the writer wrote
loadedRoundTrip == lastCall.op = "loadFromFile" /\ written.roundTrip

\* the lines of the file that are not blank, and those after the first of them
nonBlankLines == SelectSeq(written.lines, LAMBDA e : e.fields # << >>)
dataRows == IF nonBlankLines = << >> THEN << >> ELSE Tail(nonBlankLines)

\* the record has the row's first COUNT fields, then empty texts
holdsRow(track, fields) ==
    \A col \in Columns :
        column(track, col) = IF col < Len(fields) THEN fields[col + 1] ELSE << >>

\* C5: a successful parse yields one record per non-blank line other than
\* the first non-blank line, in file order; the first non-blank line is
\* dropped whatever it holds, a blank line gives no record, and the same file
\* without its blank lines gives as many records.
C5_OneRecordPerDataRow ==
    loadedLines =>
        /\ Len(m_tracks) = Len(dataRows)
        /\ \A i \in 1..Len(dataRows) : holdsRow(m_tracks[i], dataRows[i].fields)
        /\ Len(parseContent(fileOf([i \in 1..Len(nonBlankLines) |->
                                        nonBlankLines[i].line]))) = Len(m_tracks)

\* a blank line, the header, a blank line again, and one row: one record
C5_Witness ==
    /\ loadedLines
    /\ Len(written.lines) = 3
    /\ written.lines[1].fields = << >>
    /\ Len(written.lines[2].fields) = COUNT + 1
    /\ written.lines[3].fields = letterFields(3)
    /\ Len(m_tracks) = 1
    /\ m_tracks[1].idAlbum = << "c" >>

\* the records are the written ones, field by field and in order
sameRecords(tracks, records) ==
    /\ Len(tracks) = Len(records)
    /\ \A i \in 1..Len(records) :
          \A col \in Columns : column(tracks[i], col) = records[i][col + 1]

\* C6, as claimed: a header line and N records of 13 fields without caret
\* or line break, written and loaded, come back as the same N records
C6_RoundTrip ==
    loadedRoundTrip => sameRecords(m_tracks, written.records)

\* the text is not empty and starts / ends with white space
startsWithSpace(text) == text # << >> /\ isSpace(text[1])
endsWithSpace(text) == text # << >> /\ isSpace(text[Len(text)])

\* no white space at the two ends of the record's line
cleanEdges(record) == ~startsWithSpace(record[1]) /\ ~endsWithSpace(record[COUNT])

\* the header line holds something other than white space
headerNotBlank == \E i \in 1..Len(written.header) : ~isSpace(written.header[i])

\* C6, amended: the round trip holds when the header line is not blank and
\* no record starts its first field or ends its last field with white space
C6_RoundTripCleanEdges ==
    ( /\ loadedRoundTrip
      /\ headerNotBlank
      /\ \A i \in 1..Len(written.records) : cleanEdges(written.records[i]) )
    => sameRecords(m_tracks, written.records)

\* two records came back, one with white space inside its line, one all empty
C6_Witness ==
    /\ loadedRoundTrip
    /\ headerNotBlank
    /\ Len(written.records) = 2
    /\ written.records[1][2] = << "b", " ", "b" >>
    /\ written.records[2] = [i \in 1..COUNT |-> << >>]
    /\ sameRecords(m_tracks, written.records)

running(ps) == { i \in 1..Len(ps) : ps[i].state # "NotRunning" }

\* the last step was a runScript call made while an operation was running
refusedCall ==
    /\ lastCall.op = "runScript"
    /\ lastCall.pre[1] \in running(lastCall.pre[3])

\* C3: at most one generic operation runs at a time. A runScript call made
\* while one runs emits scriptFinished(operationId, -1, message) for the new
\* id and nothing else, creates no process and leaves m_scriptProcess,
\* m_currentOpId and the running process as they were; no process is ever
\* started for a call that was turned away.
C3_OneGenericOperation ==
    /\ Cardinality(running(procs)) <= 1
    /\ refusedCall =>
          /\ Len(emitted) = 1
          /\ emitted[1].sig = "scriptFinished"
          /\ emitted[1].opId = lastCall.opId
          /\ emitted[1].code = -1
          /\ << m_scriptProcess, m_currentOpId, procs >> = lastCall.pre
    /\ \A i \in 1..Len(procs) : procs[i].call \notin rejected

\* "tagclean-preview" was asked for while "build" was running, and turned away
C3_Witness ==
    /\ refusedCall
    /\ lastCall.opId = "tagclean-preview"
    /\ m_currentOpId = "build"
    /\ procs[m_scriptProcess].state = "Running"
    /\ emitted[1].code = -1

\* the last step was the end of a rate process
rateEnded == lastCall.op = "onRateProcessFinished"

\* C4: when a rate process ends exactly one signal is emitted: rateSuccess
\* if and only if the exit code is 0, rateDeferred if and only if it is 3,
\* rateError for every other code, with the trimmed stderr text or, when
\* that is empty, "Script exited with code N"
C4_RateExitCodes ==
    rateEnded =>
        /\ Len(emitted) = 1
        /\ emitted[1].sig \in { "rateSuccess", "rateDeferred", "rateError" }
        /\ emitted[1].sig = "rateSuccess" <=> lastCall.exitCode = 0
        /\ emitted[1].sig = "rateDeferred" <=> lastCall.exitCode = 3
        /\ emitted[1].sig = "rateError" =>
              emitted[1].message =
                  IF lastCall.stderrText = << " ", "e", "\n" >> THEN << "e" >>
                  ELSE << "Script exited with code " >> \o number(lastCall.exitCode)

\* exit code 1 with only white space on stderr: rateError, "... code 1"
C4_Witness ==
    /\ rateEnded
    /\ lastCall.exitCode = 1
    /\ lastCall.stderrText = << " ", "\n" >>
    /\ emitted = << rateError(lastCall.proc.filePath, lastCall.proc.stars,
                              << "Script exited with code ", "1" >>) >>

(***************************************************************************)
(* Claims about the running application (SpecApp).                         *)
(***************************************************************************)
\* nothing is left to deliver and no timer is running
quiescent ==
    /\ m_watcher.events = << >>
    /\ m_fileWatcher.events = << >>
    /\ ~m_debounceTimer.active
    /\ shots = << >>

\* C10, as claimed: when one burst of notifications has been dealt with,
\* m_libraryModel has been parsed again exactly once, the debounced reload
\* and the reloads scheduled by MainWindow::onDatabaseChanged taken together
C10_OneReparsePerBurst ==
    (quiescent /\ bursts = 1 /\ ~boundary) => parses - clientLoads = 1

(***************************************************************************)
(* Claims about cancelling a generic operation (SpecCancel).               *)
(***************************************************************************)
\* C11: kill() is sent to a process only after terminate() was sent to it, at
\* least the grace period of 3000 ms before, by the timer of the cancelScript
\* call that asked this very process to terminate; a process that was never
\* asked to terminate is never killed
C11_KillOnlyAfterGrace ==
    \A i \in 1..Len(procs) :
        procs[i].killed =>
            /\ procs[i].term # NotAsked
            /\ procs[i].killedAt >= KillDelay
            /\ procs[i].killedFor = i

(***************************************************************************)
(* Claims about generic operations and the maintenance panel               *)
(* (SpecGeneric).                                                          *)
(***************************************************************************)
\* the processes runScript created for the call c: none or one
processesOf(c) == { i \in 1..Len(procs) : procs[i].call = c }

\* C12: every runScript call gets exactly one scriptFinished with its
\* operationId: in the call itself with code -1 when it is rejected or the
\* script is not found, otherwise when its process is over, with the exit
\* code or -2 for a crash; no scriptOutput of the call comes after it
C12_OneScriptFinishedPerCall ==
    /\ \A k \in 1..Len(scriptCalls) :
          LET e == scriptCalls[k]
          IN /\ e.finished <= 1
             /\ ~e.late
             /\ processesOf(e.call) = {} => e.finished = 1
             /\ \A i \in processesOf(e.call) :
                   e.finished = (IF procs[i].state = "NotRunning" THEN 1 ELSE 0)
    /\ (lastCall.op = "runScript" /\ (lastCall.running \/ ~lastCall.found)) =>
          /\ Len(emitted) = 1
          /\ emitted[1].sig = "scriptFinished"
          /\ emitted[1].opId = lastCall.opId
          /\ emitted[1].code = NotStartedCode
    /\ lastCall.op = "onScriptProcessFinished" =>
          /\ countIn(emitted, "scriptFinished") = 1
          /\ emitted[Len(emitted)].sig = "scriptFinished"
          /\ emitted[Len(emitted)].code =
                (IF lastCall.crashed THEN CrashCode ELSE lastCall.exitCode)
          /\ \A j \in 1..Len(emitted) : emitted[j].opId = procs[lastCall.proc].opId
    /\ lastCall.op = "onScriptReadyRead" =>
          \A j \in 1..Len(emitted) :
              /\ emitted[j].sig = "scriptOutput"
              /\ emitted[j].opId = procs[m_scriptProcess].opId

\* what the panel logs for a success, a deferred end and a failure
loggedSuccess(opId) ==
    << logStatus(<< "[", opId, "] Completed successfully." >>) >>
loggedQueued(opId) ==
    << logStatus(<< "[", opId, "] Completed - some operations queued" >>) >>
loggedFailure(opId, code, text) ==
    << logStatus(<< "[", opId, "] Exited with code " >> \o number(code) \o << "." >>) >>
    \o (IF text # << >> THEN << logStatus(<< "stderr: " >> \o text) >> ELSE << >>)

\* C13: when the process of a generic operation exits, the panel logs success
\* exactly for exit code 0, the queued outcome exactly for exit code 3, and
\* for every other exit code a failure with the exit code and the stderr
\* text; a crash is logged neither as success nor as queued
C13_PanelExitCodes ==
    lastCall.op = "onScriptProcessFinished" =>
        LET done == emitted[Len(emitted)]
            code == lastCall.exitCode
        IN IF lastCall.crashed
           THEN m_logOutput # loggedSuccess(done.opId) /\ m_logOutput # loggedQueued(done.opId)
           ELSE /\ (m_logOutput = loggedSuccess(done.opId)) <=> (code = 0)
                /\ (m_logOutput = loggedQueued(done.opId)) <=> (code = DeferredCode)
                /\ (code # 0 /\ code # DeferredCode) =>
                      m_logOutput = loggedFailure(done.opId, code, done.text)

(***************************************************************************)
(* More claims about LibraryModel on its own (Spec).                       *)
(***************************************************************************)
\* C14: trackAt(row) returns the stored record of the row for
\* 0 <= row < rowCount() and a record of 13 empty fields for any other row,
\* negative rows included
C14_TrackAtInAndOutOfBounds ==
    lastCall.op = "trackAt" =>
        IF 0 <= lastCall.row /\ lastCall.row < rowCount
        THEN lastCall.ret = m_tracks[lastCall.row + 1]
        ELSE \A col \in 0..(COUNT - 1) : column(lastCall.ret, col) = EmptyText

\* after a reload, a negative row was asked for of a model that holds records
C14_Witness ==
    /\ lastCall.op = "trackAt"
    /\ lastCall.row < 0
    /\ m_tracks # << >>
    /\ reloads > 0
    /\ lastCall.ret = EmptyTrackRecord

\* the last handler was a debounced reload that could not open the file
failedReload == lastCall.op = "reloadDebounced" /\ ~lastCall.opened

\* C15: a debounced reload that cannot open the file keeps the records,
\* emits loadError as a manual load does, and leaves the debounce timer
\* stopped; with the timer stopped, only an explicit loadFromFile parses
C15_FailedReloadGoesIdle ==
    /\ [](failedReload =>
            /\ m_tracks = lastCall.pre
            /\ emitted = << loadError(m_dsvPath) >>
            /\ ~m_debounceTimer.active)
    /\ [][(~m_debounceTimer.active /\ parses' # parses) =>
             lastCall'.op = "loadFromFile"]_vars

\* a reload failed while the model held records, and they are still there
C15_Witness ==
    /\ failedReload
    /\ m_tracks # << >>
    /\ m_tracks = lastCall.pre
    /\ ~m_debounceTimer.active

(***************************************************************************)
(* Claims about musiclib-cli (SpecCli).                                    *)
(***************************************************************************)
\* C16: rate <rating> runs musiclib_rate.sh with [rating]; rate <rating>
\* <filepath>, the file existing, runs it with [rating, filepath]; the rating
\* being an integer in 0..5, the script found and started, the command
\* returns the exit code of the script
C16_RateRatingThenPath ==
    (/\ lastCall.op = "handleRate"
     /\ Len(argv) \in { 1, 2 }
     /\ toInt(argv[1]).ok
     /\ toInt(argv[1]).value \in 0..MaxRating
     /\ Len(argv) = 2 => argv[2] \in existing
     /\ lastCall.found
     /\ lastCall.started) =>
        /\ lastCall.ret.ran
        /\ lastCall.ret.script = "musiclib_rate.sh"
        /\ lastCall.ret.args = argv
        /\ lastCall.ret.ret = lastCall.exitCode

\* the line saveToFile is to write for a key with its value
assignment(key) == key \o << "=" >> \o written_value(m_values[key])

\* text starts with prefix
startsWith(text, prefix) ==
    Len(prefix) <= Len(text) /\ SubSeq(text, 1, Len(prefix)) = prefix

\* a save that wrote musiclib.conf has just returned
savedNow == lastCall = confCall("save", TRUE)

\* the keys of m_values that no line of the loaded file assigns
freshKeys ==
    DOMAIN m_values \
        { parseLine(confLoaded[i]).key :
            i \in { j \in 1..Len(confLoaded) : parseLine(confLoaded[j]).ok } }

\* C17: after a save, the file has the loaded file's lines in their places:
\* comment, blank and other non-assignment lines verbatim, each assignment
\* line as its key with the current value, and after all of them one line
\* for each key the loaded file did not have.
C17_SaveKeepsLinesInPlace ==
    savedNow =>
        LET out == readLines(confFile.content)
            n == Len(confLoaded)
        IN /\ Len(out) = n + Cardinality(freshKeys)
           /\ \A i \in 1..n :
                 LET p == parseLine(confLoaded[i])
                 IN IF p.ok
                    THEN /\ p.key \in DOMAIN m_values
                         /\ startsWith(out[i], assignment(p.key))
                         /\ parseLine(out[i]).key = p.key
                    ELSE out[i] = confLoaded[i]
           /\ { out[j] : j \in (n + 1)..Len(out) } = { assignment(k) : k \in freshKeys }

\* a save of a file with a comment line and an assignment whose value was
\* changed since the load, and with a key the file did not have
C17_Witness ==
    /\ savedNow
    /\ \E i \in 1..Len(confLoaded) :
          ~parseLine(confLoaded[i]).ok /\ trimmed(confLoaded[i]) # << >>
    /\ \E i \in 1..Len(confLoaded) :
          /\ parseLine(confLoaded[i]).ok
          /\ parseLine(confLoaded[i]).value # m_values[parseLine(confLoaded[i]).key]
    /\ freshKeys # {}


\* n written with two digits
twoDigits(n) == << Digits[(n \div 10) + 1], Digits[(n % 10) + 1] >>

\* the model was just asked for the text of the length of a row it has
lengthShown ==
    /\ lastCall.op = "data"
    /\ lastCall.role = "DisplayRole"
    /\ lastCall.col = SongLengthColumn
    /\ lastCall.row < rowCount

\* C18: the length shown for a text that parses as an int ms > 0 is
\* <ms div 60000>:<(ms div 1000) mod 60 in two digits>; every other text,
\* 0 and negative numbers among them, is shown unchanged.
C18_FormatDuration ==
    lengthShown =>
        LET ms == m_tracks[lastCall.row + 1].songLength
            conv == toInt(ms)
        IN /\ lastCall.ret.type = "QString"
           /\ IF conv.ok /\ conv.value > 0
              THEN lastCall.ret.value =
                      number(conv.value \div 60000) \o << ":" >>
                      \o twoDigits((conv.value \div 1000) % 60)
              ELSE lastCall.ret.value = ms

\* the length 125000 was shown as 2:05
C18_Witness ==
    /\ lengthShown
    /\ m_tracks[lastCall.row + 1].songLength = << "1", "2", "5", "0", "0", "0" >>
    /\ lastCall.ret.value = << "2", ":", "0", "5" >>


\* text is a date written in format
isDateIn(text, format) == Len(text) > 2 /\ text[1] = format /\ text[2] = "@"

\* the instant a date text was made from
instantOf(text) == SubSeq(text, 3, Len(text))

\* the library table was just asked for the last-played text of a row it has
lastPlayedShown ==
    /\ lastCall.op = "data"
    /\ lastCall.role = "DisplayRole"
    /\ lastCall.col = LastTimePlayedColumn
    /\ lastCall.row < rowCount

\* C19: a serial that is 0, negative or unparsable shows as never played in
\* the library table and in the album window, and a positive serial shows in
\* both as the date of the unix second trunc((serial - 25569) * 86400).
C19_LastPlayedSameInBothViews ==
    lastPlayedShown =>
        LET serialTime == m_tracks[lastCall.row + 1].lastTimePlayed
            conv == toDouble(serialTime)
            table == lastCall.ret.value
            album == trackItem(m_tracks[lastCall.row + 1]).text2
        IN IF ~conv.ok \/ notAboveZero(conv.value)
           THEN table = EmptyText /\ album = << "Never" >>
           ELSE /\ isDateIn(table, "MM/dd/yy")
                /\ isDateIn(album, "MM/dd/yyyy")
                /\ instantOf(table) = instantOf(album)
                /\ Len(conv.value.whole) < BeyondDateTimeDigits
                      => instantOf(table) = number(unixSecsOf(conv.value))


\* the record sets that differ from tracks in the Rating field (column 9)
\* of their records only
ratingVariants(tracks) ==
    { [i \in 1..Len(tracks) |-> [tracks[i] EXCEPT !.rating = alt[i]]] :
        alt \in [1..Len(tracks) -> RatingTexts \cup { EmptyText }] }

\* the stars of the items of a track list
starsOf(items) == [i \in 1..Len(items) |-> items[i].text1]

\* C20: what the views make of the rating of a track -- the Stars sort value,
\* the background of unrated tracks, the decisions of the two star filters
\* and the stars of the album window -- is the same for every record set
\* that differs from the loaded one in the Rating field (column 9) only.
C20_RatingFieldNeverRead ==
    \A other \in ratingVariants(m_tracks) :
        /\ (/\ lastCall.op = "data"
            /\ \/ lastCall.role = "BackgroundRole"
               \/ lastCall.role = "UserRole" /\ lastCall.col = GroupDescColumn)
              => /\ lastCall.ret.type =
                       dataOver(other, lastCall.row, lastCall.col, lastCall.role).type
                 /\ lastCall.ret =
                       dataOver(other, lastCall.row, lastCall.col, lastCall.role)
        /\ lastCall.op = "filterAcceptsRow"
              => lastCall.ret =
                    filterAcceptsRowOver(other, lastCall.row, lastCall.textAccepts)
        /\ lastCall.op = "populate"
              => \E items \in populatedOver(other, lastCall.albumId) :
                    starsOf(items) = starsOf(m_trackList)

\* the album window shows three stars for two tracks whose Rating field is 0
C20_Witness ==
    /\ lastCall.op = "populate"
    /\ Len(m_trackList) = 2
    /\ \A i \in 1..2 : m_trackList[i].text1 = starsToDisplay(3)
    /\ \A i \in 1..Len(m_tracks) : m_tracks[i].rating = << "0" >>


\* the process of a rate() call has just finished
rateProcessFinished == lastCall.op = "onRateProcessFinished"

\* C25: the signal emitted when the process of a rate() call finishes
\* carries the file path and the stars of that call, whatever other rate()
\* calls are in flight.
C25_RateSignalCarriesItsCall ==
    rateProcessFinished =>
        /\ Len(emitted) = 1
        /\ emitted[1].sig \in { "rateSuccess", "rateDeferred", "rateError" }
        /\ emitted[1].filePath = lastCall.proc.filePath
        /\ emitted[1].stars = lastCall.proc.stars


\* C24: the launch buttons are disabled, and Cancel is visible, only while
\* an operation launched from the panel is under way: its script starting or
\* running, or its start put off by launchNewTracks. Once the operation has
\* ended, was rejected or could not be started they are enabled again.
C24_ButtonsDisabledOnlyWhileRunning ==
    ~buttonsEnabled => (isRunning \/ newTracksShot)


(***************************************************************************)
(* The tray popup: SystemTrayIcon over MainWindow's now-playing state.     *)
(***************************************************************************)
\* the rate() calls the tray model may make
MaxTrayCalls == 4

\* what audtool reports as the current song: nothing, or a path
SongPaths == { "" } \cup FilePaths
\* what currgpnum.txt holds
RatingGroups == { << "0" >>, << "3" >> }

\* MainWindow::refreshNowPlaying: the rating from the conky file, the state
\* from audtool, and the path from audtool while it plays
refreshNowPlaying(ratingGroup, playing, path) ==
    m_nowPlaying' = [ratingGroup |-> ratingGroup,
                     isPlaying |-> playing,
                     songPath |-> IF playing THEN path ELSE m_nowPlaying.songPath]

\* the TrackInfo MainWindow pushes to the tray after a refresh
trackInfoOf(nowPlaying) ==
    [filePath |-> nowPlaying.songPath,
     rating |-> toInt(nowPlaying.ratingGroup).value,
     isPlaying |-> nowPlaying.isPlaying]

\* SystemTrayIcon::updateTrackInfo
updateTrackInfo(info) ==
    /\ IF info.filePath # m_sessionFilePath
       THEN /\ m_sessionFilePath' = info.filePath
            /\ m_sessionRatingBefore' = NoRatingBefore
       ELSE UNCHANGED << m_sessionFilePath, m_sessionRatingBefore >>
    /\ m_current' = info

\* MainWindow::rateCurrentTrack
rateCurrentTrack(stars, found) ==
    IF stars < 0 \/ stars > 5 \/ m_nowPlaying.songPath = ""
    THEN /\ lastCall' = noCall("rateCurrentTrack")
         /\ emitted' = << >>
         /\ UNCHANGED << rateVars, calls, m_nowPlaying >>
    ELSE /\ rate(m_nowPlaying.songPath, stars, found)
         /\ m_nowPlaying' = [m_nowPlaying EXCEPT !.ratingGroup = number(stars)]

\* SystemTrayIcon::onRateStar
onRateStar(stars, found) ==
    IF ~m_current.isPlaying \/ m_current.filePath = ""
    THEN /\ lastCall' = noCall("onRateStar")
         /\ emitted' = << >>
         /\ UNCHANGED << rateVars, calls, m_nowPlaying, m_current, m_sessionRatingBefore >>
    ELSE /\ m_sessionRatingBefore' =
               IF m_sessionRatingBefore < 0 THEN m_current.rating
               ELSE m_sessionRatingBefore
         /\ rateCurrentTrack(stars, found)
         /\ m_current' = [m_current EXCEPT !.rating = stars]

\* SystemTrayIcon::onUndoRating
onUndoRating(found) ==
    IF m_sessionRatingBefore < 0 \/ ~m_current.isPlaying
    THEN /\ lastCall' = noCall("onUndoRating")
         /\ emitted' = << >>
         /\ UNCHANGED << rateVars, calls, m_nowPlaying, m_current, m_sessionRatingBefore >>
    ELSE LET original == m_sessionRatingBefore
         IN  /\ m_sessionRatingBefore' = NoRatingBefore
             /\ rateCurrentTrack(original, found)
             /\ m_current' = [m_current EXCEPT !.rating = original]

\* the now-playing timer fires: MainWindow refreshes and pushes to the tray
RefreshNowPlaying ==
    /\ \E ratingGroup \in RatingGroups, playing \in BOOLEAN, path \in SongPaths :
          refreshNowPlaying(ratingGroup, playing, path)
    /\ updateTrackInfo(trackInfoOf(m_nowPlaying'))
    /\ session' = IF m_current'.filePath # m_current.filePath THEN NoSession ELSE session
    /\ trayCall' = [op |-> "updateTrackInfo", session |-> session]
    /\ lastCall' = noCall("refreshNowPlaying")
    /\ emitted' = << >>
    /\ panelHears
    /\ UNCHANGED << fileVars, genericVars, rateVars, calls, killShots, scriptCalls,
                    cliVars, confVars, viewVars, mobileVars >>

\* a star of the popup is clicked
OnRateStar ==
    /\ calls < MaxTrayCalls
    /\ \E stars \in Stars, found \in BOOLEAN : onRateStar(stars, found)
    /\ session' =
          IF ~m_current.isPlaying \/ m_current.filePath = "" THEN session
          ELSE [track |-> m_current.filePath,
                first |-> IF session.first = NoRatingBefore THEN m_current.rating
                          ELSE session.first,
                sinceUndo |-> IF session.sinceUndo = NoRatingBefore THEN m_current.rating
                              ELSE session.sinceUndo]
    /\ trayCall' = [op |-> "onRateStar", session |-> session]
    /\ panelHears
    /\ UNCHANGED << fileVars, genericVars, killShots, scriptCalls,
                    cliVars, confVars, viewVars, mobileVars, m_sessionFilePath >>

\* Undo of the popup is clicked
OnUndoRating ==
    /\ calls < MaxTrayCalls
    /\ \E found \in BOOLEAN : onUndoRating(found)
    /\ session' = IF m_current.isPlaying
                  THEN [session EXCEPT !.sinceUndo = NoRatingBefore]
                  ELSE session
    /\ trayCall' = [op |-> "onUndoRating", session |-> session]
    /\ panelHears
    /\ UNCHANGED << fileVars, genericVars, killShots, scriptCalls,
                    cliVars, confVars, viewVars, mobileVars, m_sessionFilePath >>

\* a star button of the toolbar is clicked
StarButtonClicked ==
    /\ calls < MaxTrayCalls
    /\ \E stars \in Stars, found \in BOOLEAN : rateCurrentTrack(stars, found)
    /\ trayCall' = [op |-> "rateCurrentTrack", session |-> session]
    /\ panelHears
    /\ UNCHANGED << fileVars, genericVars, killShots, scriptCalls,
                    cliVars, confVars, viewVars, mobileVars,
                    m_current, m_sessionFilePath, m_sessionRatingBefore, session >>

NextTray ==
    \/ RefreshNowPlaying
    \/ OnRateStar
    \/ OnUndoRating
    \/ StarButtonClicked

SpecTray == InitRunner /\ [][NextTray]_vars

\* Undo of the popup has just re-rated a track
undone == trayCall.op = "onUndoRating" /\ lastCall.op = "rate"

\* C22: Undo of the tray popup re-rates the current track with the rating it
\* had before the first onRateStar since it became current, and with no
\* other track's; it does so once, and not again before the next onRateStar;
\* a change of the file path clears the pending undo.
C22_UndoRestoresRatingBeforeFirstRate ==
    /\ undone =>
          /\ trayCall.session.sinceUndo # NoRatingBefore
          /\ lastCall.stars = trayCall.session.first
          /\ lastCall.filePath = trayCall.session.track
    /\ (trayCall.op = "updateTrackInfo" /\ session = NoSession) =>
          m_sessionRatingBefore = NoRatingBefore


\* C23: "Exclude Unrated" and "Exclude Rated" are never both checked, and
\* each of the two check boxes is disabled exactly while the other one is
\* checked, whatever enabled check boxes the user has toggled.
C23_ExcludeBoxesMutuallyExclusive ==
    /\ ~(m_excludeUnratedCheckbox.checked /\ m_excludeRatedCheckbox.checked)
    /\ m_excludeUnratedCheckbox.enabled = ~m_excludeRatedCheckbox.checked
    /\ m_excludeRatedCheckbox.enabled = ~m_excludeUnratedCheckbox.checked

\* "Exclude Unrated" was unchecked and "Exclude Rated" has just been checked
C23_Witness ==
    /\ lastCall.op = "onExcludeRatedToggled"
    /\ m_excludeRatedCheckbox.checked
    /\ ~m_excludeUnratedCheckbox.checked
    /\ ~m_excludeUnratedCheckbox.enabled


(***************************************************************************)
(* The mobile panel: MobilePanel and the processes of musiclib_mobile.sh.  *)
(***************************************************************************)
\* the operations the user may ask of the panel
MaxMobileOps == 3
\* the progress lines read from one process
MaxProgressLines == 2

\* what check-update writes to its standard output
StatusNewer == << "S", "T", "A", "T", "U", "S", ":", "n", "e", "w", "e", "r", "\n" >>
StatusNew == << "S", "T", "A", "T", "U", "S", ":", "n", "e", "w", "\n" >>
StatusSame == << "S", "T", "A", "T", "U", "S", ":", "s", "a", "m", "e", "\n" >>
StatusTexts == { StatusNewer, StatusNew, StatusSame, EmptyText }
\* the marks onCheckUpdateFinished looks for
NewerMark == << "S", "T", "A", "T", "U", "S", ":", "n", "e", "w", "e", "r" >>
NewMark == << "S", "T", "A", "T", "U", "S", ":", "n", "e", "w" >>

\* the lines musiclib_mobile.sh writes while it runs, with the M of those
\* that are UPLOAD: [N/M] lines
ProgressLines ==
    { [text |-> << "U", "P", "L", "O", "A", "D", ":", " ", "[", "1", "/", "3", "]", " ", "a" >>, total |-> 3],
      [text |-> << "U", "P", "L", "O", "A", "D", ":", "[", "2", "/", "2", "]" >>, total |-> 2],
      [text |-> << "A", "C", "C", "O", "U", "N", "T", "I", "N", "G", ":", " ", "T", "r", "a", "c", "k", " ", "1", "/", "4", ":" >>, total |-> 0],
      [text |-> << "U", "P", "L", "O", "A", "D", ":", " ", "C", "o", "m", "p", "l", "e", "t", "e" >>, total |-> 0],
      [text |-> << " " >>, total |-> 0] }

\* the exit codes of musiclib_mobile.sh
MobileExitCodes == { 0, 1 }

\* QString::contains
contains(text, sub) ==
    \E i \in 1..(Len(text) - Len(sub) + 1) : SubSeq(text, i, i + Len(sub) - 1) = sub

\* the tokens of the patterns of parseProgressLine
lit(text) == [kind |-> "lit", text |-> text, min |-> 0]
spaces(min) == [kind |-> "spaces", text |-> EmptyText, min |-> min]
digits == [kind |-> "digits", text |-> EmptyText, min |-> 1]

\* ACCOUNTING:\s*Track\s+(\d+)/(\d+):
accountingRe ==
    << lit(<< "A", "C", "C", "O", "U", "N", "T", "I", "N", "G", ":" >>), spaces(0), lit(<< "T", "r", "a", "c", "k" >>), spaces(1), digits, lit(<< "/" >>), digits,
       lit(<< ":" >>) >>
\* UPLOAD:\s*\[(\d+)/(\d+)\]
uploadRe ==
    << lit(<< "U", "P", "L", "O", "A", "D", ":" >>), spaces(0), lit(<< "[" >>), digits, lit(<< "/" >>), digits,
       lit(<< "]" >>) >>

RECURSIVE runLength(_, _, _)
\* the length of the run of digits, or of white space, of text from position i
runLength(text, i, ofDigits) ==
    IF i <= Len(text) /\ (IF ofDigits THEN isDigit(text[i]) ELSE isSpace(text[i]))
    THEN 1 + runLength(text, i + 1, ofDigits)
    ELSE 0

NoMatch == [ok |-> FALSE, caps |-> << >>]

RECURSIVE matchAt(_, _, _)
\* the match of pattern with text at position i: [ok, caps]. The runs are
\* taken whole: no token of the two patterns begins with a character of the
\* run before it
matchAt(text, i, pattern) ==
    IF pattern = << >> THEN [ok |-> TRUE, caps |-> << >>]
    ELSE LET tok == Head(pattern)
             n == IF tok.kind = "lit" THEN Len(tok.text)
                  ELSE runLength(text, i, tok.kind = "digits")
             here == IF tok.kind = "lit"
                     THEN i + n - 1 <= Len(text) /\ SubSeq(text, i, i + n - 1) = tok.text
                     ELSE n >= tok.min
             rest == matchAt(text, i + n, Tail(pattern))
         IN  IF here /\ rest.ok
             THEN [ok |-> TRUE,
                   caps |-> IF tok.kind = "digits"
                            THEN << SubSeq(text, i, i + n - 1) >> \o rest.caps
                            ELSE rest.caps]
             ELSE NoMatch

\* QRegularExpression::match: the leftmost match of pattern in text
regexMatch(text, pattern) ==
    LET starts == { i \in 1..Len(text) : matchAt(text, i, pattern).ok }
    IN  IF starts = {} THEN NoMatch
        ELSE matchAt(text, CHOOSE i \in starts : \A j \in starts : i <= j, pattern)

\* MobilePanel::parseProgressLine: the maximum of the progress bar after line
parseProgressLine(line, maximum) ==
    LET am == regexMatch(line, accountingRe)
        um == regexMatch(line, uploadRe)
    IN  IF am.ok
        THEN IF toInt(am.caps[2]).value > 0 THEN toInt(am.caps[2]).value ELSE maximum
        ELSE IF um.ok
        THEN IF toInt(um.caps[2]).value > 0 THEN toInt(um.caps[2]).value ELSE maximum
        ELSE maximum

\* MobilePanel::startScriptProcess: the processes after QProcess::start of
\* process, when the script is found; start does nothing to a process that
\* is not NotRunning
startScriptProcess(process, found) ==
    IF found /\ mobileProcs[process] = "NotRunning"
    THEN [mobileProcs EXCEPT ![process] = "Starting"]
    ELSE mobileProcs

\* MobilePanel::executeUpload
executeUpload(found) ==
    /\ progressMaximum' = 0
    /\ m_operationInProgress' = TRUE
    /\ mobileProcs' = startScriptProcess("upload", found)
    /\ lastTotal' = 0
    /\ linesRead' = 0

\* startUpload without the halt-if-newer gate
startUpload_skipsCheck(ready, found) ==
    /\ lastCall' = [op |-> "startUpload", ready |-> ready, found |-> found,
                    halt |-> m_haltIfNewerCheck, busy |-> m_operationInProgress,
                    pre |-> mobileProcs]
    /\ emitted' = << >>
    /\ IF m_operationInProgress \/ ~ready
       THEN UNCHANGED << m_operationInProgress, mobileProcs, progressMaximum, pendingCheck,
                         lastTotal, linesRead >>
       ELSE /\ executeUpload(found)
            /\ UNCHANGED pendingCheck

\* MobilePanel::startUpload; ready: a playlist of the .audpl format and a
\* device are selected
startUpload(ready, found) ==
    /\ lastCall' = [op |-> "startUpload", ready |-> ready, found |-> found,
                    halt |-> m_haltIfNewerCheck, busy |-> m_operationInProgress,
                    pre |-> mobileProcs]
    /\ emitted' = << >>
    /\ IF m_operationInProgress \/ ~ready
       THEN UNCHANGED << m_operationInProgress, mobileProcs, progressMaximum, pendingCheck,
                         lastTotal, linesRead >>
       ELSE IF m_haltIfNewerCheck
       THEN /\ m_operationInProgress' = TRUE
            /\ mobileProcs' = startScriptProcess("checkUpdate", found)
            /\ pendingCheck' = TRUE
            /\ UNCHANGED << progressMaximum, lastTotal, linesRead >>
       ELSE /\ executeUpload(found)
            /\ UNCHANGED pendingCheck

\* MobilePanel::onCheckUpdateFinished
onCheckUpdateFinished(exitCode, output, found) ==
    LET status == trimmed(output)
    IN  /\ lastCall' = [op |-> "onCheckUpdateFinished", exitCode |-> exitCode,
                        output |-> output, found |-> found]
        /\ emitted' = << >>
        /\ pendingCheck' = FALSE
        /\ IF /\ exitCode = 0
              /\ \/ contains(status, NewerMark)
                 \/ contains(status, NewMark)
           THEN /\ m_operationInProgress' = FALSE
                /\ mobileProcs' = [mobileProcs EXCEPT !["checkUpdate"] = "NotRunning"]
                /\ UNCHANGED << progressMaximum, lastTotal, linesRead >>
           ELSE /\ progressMaximum' = 0
                /\ m_operationInProgress' = TRUE
                /\ mobileProcs' =
                      [startScriptProcess("upload", found) EXCEPT
                          !["checkUpdate"] = "NotRunning"]
                /\ lastTotal' = 0
                /\ linesRead' = 0

\* MobilePanel::onUploadFinished
onUploadFinished(exitCode) ==
    /\ lastCall' = [op |-> "onUploadFinished", exitCode |-> exitCode, total |-> lastTotal]
    /\ m_operationInProgress' = FALSE
    /\ progressMaximum' = 1
    /\ mobileProcs' = [mobileProcs EXCEPT !["upload"] = "NotRunning"]
    /\ emitted' = IF exitCode = 0
                  THEN << [sig |-> "uploadCompleted", trackCount |-> progressMaximum'] >>
                  ELSE << >>

\* the slots of finished of m_operationProcess, by the operation that
\* connects them
OperationSlots ==
    [retry |-> "onRetryFinished", updateLastPlayed |-> "onUpdateLastPlayedFinished",
     cleanup |-> "onCleanupFinished"]

\* MobilePanel::startRetry, startUpdateLastPlayed and startCleanup; ready: a
\* playlist is selected, which startCleanup does not ask for
startOperation(operation, ready, found) ==
    /\ lastCall' = [op |-> operation, ready |-> ready, found |-> found,
                    busy |-> m_operationInProgress, pre |-> mobileProcs]
    /\ emitted' = << >>
    /\ IF m_operationInProgress \/ (operation # "cleanup" /\ ~ready)
       THEN UNCHANGED << m_operationInProgress, mobileProcs, operationSlot,
                         progressMaximum, linesRead >>
       ELSE /\ m_operationInProgress' = TRUE
            /\ progressMaximum' = 0
            /\ operationSlot' = OperationSlots[operation]
            /\ mobileProcs' = startScriptProcess("operation", found)
            /\ linesRead' = 0

\* MobilePanel::refreshFromAudacious
refreshFromAudacious(found) ==
    /\ lastCall' = [op |-> "refreshFromAudacious", found |-> found,
                    busy |-> m_operationInProgress, pre |-> mobileProcs]
    /\ emitted' = << >>
    /\ IF m_operationInProgress
       THEN UNCHANGED << m_operationInProgress, mobileProcs, operationSlot,
                         progressMaximum, linesRead >>
       ELSE IF mobileProcs["operation"] # "NotRunning"
       THEN /\ m_operationInProgress' = FALSE
            /\ progressMaximum' = 0
            /\ UNCHANGED << mobileProcs, operationSlot, linesRead >>
       ELSE /\ m_operationInProgress' = TRUE
            /\ progressMaximum' = 0
            /\ operationSlot' = "onRefreshAudaciousFinished"
            /\ mobileProcs' = startScriptProcess("operation", found)
            /\ linesRead' = 0

\* onRetryFinished, onUpdateLastPlayedFinished, onCleanupFinished and
\* onRefreshAudaciousFinished, as far as the panel's state goes
onOperationFinished(exitCode) ==
    /\ lastCall' = [op |-> operationSlot, exitCode |-> exitCode]
    /\ emitted' = << >>
    /\ m_operationInProgress' = FALSE
    /\ progressMaximum' = 1
    /\ mobileProcs' = [mobileProcs EXCEPT !["operation"] = "NotRunning"]

otherThanMobile == << fileVars, runnerVars, cliVars, confVars, viewVars, trayVars >>

\* the user checks or unchecks "Halt upload if Audacious version is newer"
HaltIfNewerToggled ==
    /\ mobileOps < MaxMobileOps
    /\ m_haltIfNewerCheck' = ~m_haltIfNewerCheck
    /\ lastCall' = noCall("haltIfNewerToggled")
    /\ emitted' = << >>
    /\ UNCHANGED << otherThanMobile, m_operationInProgress, mobileProcs, operationSlot,
                    progressMaximum, pendingCheck, lastTotal, linesRead, mobileOps >>

\* Upload is clicked
StartUpload ==
    /\ mobileOps < MaxMobileOps
    /\ mobileOps' = mobileOps + 1
    /\ \E ready \in BOOLEAN, found \in BOOLEAN : startUpload(ready, found)
    /\ UNCHANGED << otherThanMobile, m_haltIfNewerCheck, operationSlot >>

\* Retry, Update Last Played or Cleanup is clicked
StartOperation ==
    /\ mobileOps < MaxMobileOps
    /\ mobileOps' = mobileOps + 1
    /\ \E operation \in DOMAIN OperationSlots, ready \in BOOLEAN, found \in BOOLEAN :
          startOperation(operation, ready, found)
    /\ UNCHANGED << otherThanMobile, m_haltIfNewerCheck, pendingCheck, lastTotal >>

\* Refresh from Audacious is clicked
RefreshFromAudacious ==
    /\ mobileOps < MaxMobileOps
    /\ mobileOps' = mobileOps + 1
    /\ \E found \in BOOLEAN : refreshFromAudacious(found)
    /\ UNCHANGED << otherThanMobile, m_haltIfNewerCheck, pendingCheck, lastTotal >>

\* bash has started for a process of the panel
MobileProcessStarted ==
    /\ \E p \in DOMAIN mobileProcs :
          /\ mobileProcs[p] = "Starting"
          /\ mobileProcs' = [mobileProcs EXCEPT ![p] = "Running"]
    /\ lastCall' = noCall("started")
    /\ emitted' = << >>
    /\ UNCHANGED << otherThanMobile, m_operationInProgress, m_haltIfNewerCheck,
                    operationSlot, progressMaximum, pendingCheck, lastTotal, linesRead,
                    mobileOps >>

\* bash could not be started: QProcess reports errorOccurred, which no slot
\* of the panel is connected to, and no finished
MobileProcessFailedToStart ==
    /\ \E p \in DOMAIN mobileProcs :
          /\ mobileProcs[p] = "Starting"
          /\ mobileProcs' = [mobileProcs EXCEPT ![p] = "NotRunning"]
    /\ lastCall' = noCall("errorOccurred")
    /\ emitted' = << >>
    /\ UNCHANGED << otherThanMobile, m_operationInProgress, m_haltIfNewerCheck,
                    operationSlot, progressMaximum, pendingCheck, lastTotal, linesRead,
                    mobileOps >>

\* MobilePanel::onUploadReadyRead, and the lambdas of startRetry and
\* startUpdateLastPlayed: a line of the script is read
ReadyRead ==
    /\ linesRead < MaxProgressLines
    /\ \E p \in { "upload", "operation" }, l \in ProgressLines :
          /\ mobileProcs[p] = "Running"
          /\ p = "operation" =>
                operationSlot \in { "onRetryFinished", "onUpdateLastPlayedFinished" }
          /\ LET line == trimmed(l.text)
             IN  /\ progressMaximum' =
                       IF p = "upload" /\ line = EmptyText THEN progressMaximum
                       ELSE parseProgressLine(line, progressMaximum)
                 /\ lastTotal' = IF p = "upload" /\ l.total > 0 THEN l.total ELSE lastTotal
                 /\ lastCall' = [op |-> "readyRead", process |-> p, line |-> l]
    /\ linesRead' = linesRead + 1
    /\ emitted' = << >>
    /\ UNCHANGED << otherThanMobile, m_operationInProgress, m_haltIfNewerCheck, mobileProcs,
                    operationSlot, pendingCheck, mobileOps >>

\* the check-update process ends
CheckUpdateFinished ==
    /\ mobileProcs["checkUpdate"] = "Running"
    /\ \E exitCode \in MobileExitCodes, output \in StatusTexts, found \in BOOLEAN :
          onCheckUpdateFinished(exitCode, output, found)
    /\ UNCHANGED << otherThanMobile, m_haltIfNewerCheck, operationSlot, mobileOps >>

\* the upload process ends
UploadFinished ==
    /\ mobileProcs["upload"] = "Running"
    /\ \E exitCode \in MobileExitCodes : onUploadFinished(exitCode)
    /\ UNCHANGED << otherThanMobile, m_haltIfNewerCheck, operationSlot, pendingCheck,
                    lastTotal, linesRead, mobileOps >>

\* the process of a retry, update-lastplayed, cleanup or refresh ends
OperationFinished ==
    /\ mobileProcs["operation"] = "Running"
    /\ \E exitCode \in MobileExitCodes : onOperationFinished(exitCode)
    /\ UNCHANGED << otherThanMobile, m_haltIfNewerCheck, operationSlot, pendingCheck,
                    lastTotal, linesRead, mobileOps >>

NextMobile ==
    \/ HaltIfNewerToggled
    \/ StartUpload
    \/ StartOperation
    \/ RefreshFromAudacious
    \/ MobileProcessStarted
    \/ MobileProcessFailedToStart
    \/ ReadyRead
    \/ CheckUpdateFinished
    \/ UploadFinished
    \/ OperationFinished

SpecMobile == InitRunner /\ [][NextMobile]_vars

\* every process that was started starts or fails to, and every process
\* that runs ends
SpecMobileLive ==
    /\ SpecMobile
    /\ WF_vars(MobileProcessStarted \/ MobileProcessFailedToStart)
    /\ WF_vars(CheckUpdateFinished)
    /\ WF_vars(UploadFinished)
    /\ WF_vars(OperationFinished)


\* Upload was clicked with the halt check box checked, and was not turned away
haltedUpload ==
    /\ lastCall.op = "startUpload"
    /\ lastCall.halt
    /\ lastCall.ready
    /\ ~lastCall.busy

\* check-update has just ended with exit code 0, reporting a newer or a new
\* playlist
newerReported ==
    /\ lastCall.op = "onCheckUpdateFinished"
    /\ lastCall.exitCode = 0
    /\ lastCall.output \in { StatusNewer, StatusNew }

\* C21: with the halt check box checked, startUpload starts check-update and
\* no upload; no upload process is started before that check-update has
\* finished; and when check-update exits with 0 and reports STATUS:newer or
\* STATUS:new, no upload process is started and the panel is idle again.
C21_UploadWaitsForCheckUpdate ==
    /\ haltedUpload =>
          /\ mobileProcs["upload"] = lastCall.pre["upload"]
          /\ lastCall.found => mobileProcs["checkUpdate"] = "Starting"
          /\ m_operationInProgress
    /\ pendingCheck => mobileProcs["upload"] = "NotRunning"
    /\ newerReported =>
          /\ mobileProcs["upload"] = "NotRunning"
          /\ ~m_operationInProgress

\* check-update has reported a newer playlist: nothing is uploaded
C21_Witness ==
    /\ newerReported
    /\ lastCall.output = StatusNewer
    /\ mobileProcs["upload"] = "NotRunning"
    /\ ~m_operationInProgress
    /\ m_haltIfNewerCheck

\* some process of the panel is starting or running
mobileRunning == \E p \in DOMAIN mobileProcs : mobileProcs[p] # "NotRunning"

\* C26: m_operationInProgress is true only while a process of the panel is
\* under way, and whenever it is true it is false again later.
C26_BusyOnlyWhileRunningAndReset ==
    /\ [](m_operationInProgress => mobileRunning)
    /\ m_operationInProgress ~> ~m_operationInProgress

\* uploadCompleted in the signals of the last handler
uploadsCompleted == countIn(emitted, "uploadCompleted")

\* C27: uploadCompleted is emitted when, and only when, the upload process
\* has ended with exit code 0, and its trackCount is the M of the last
\* UPLOAD: [N/M] line the upload wrote.
C27_UploadCompletedCarriesTotal ==
    /\ lastCall.op # "onUploadFinished" => uploadsCompleted = 0
    /\ lastCall.op = "onUploadFinished" =>
          /\ uploadsCompleted = (IF lastCall.exitCode = 0 THEN 1 ELSE 0)
          /\ (lastCall.exitCode = 0 /\ lastCall.total > 0) =>
                emitted[1].trackCount = lastCall.total

=========================================================================
